---- MODULE Spec2Model ----
(***************************************************************************)
(* Stateless chunk validation (chain/client/src/chunk_validation.rs).      *)
(*                                                                         *)
(* The model holds one chain history shared by every node (a tree of       *)
(* blocks, one tracked shard), the node-local store written while blocks   *)
(* are applied, the producer's last call of                                *)
(* send_chunk_state_witness_to_chunk_validators, the validator's last call *)
(* of process_chunk_state_witness, the worker tasks spawned by             *)
(* start_validating_chunk and the endorsements in flight.                  *)
(*                                                                         *)
(* Hashes are small integers computed by Mix; a block hash is the block's  *)
(* index in `blocks`, and 0 is CryptoHash::default().                      *)
(*                                                                         *)
(* A second part models the test function of                               *)
(* integration-tests/src/tests/client/features/in_memory_tries.rs, which   *)
(* runs two clients with different in-memory trie configurations.          *)
(***************************************************************************)
EXTENDS Integers, Sequences, FiniteSets, TLC

VARIABLES
    blocks,                 \* chain store: block hash (index) -> block
    chunk_extras,           \* chain store: block hash -> ChunkExtra of the shard
    outgoing_receipts,      \* chain store: block hash -> receipts produced at the block
    state_transition_data,  \* DBCol::StateTransitionData: block hash -> row
    protocol_version,       \* protocol version of the epoch
    last_send,              \* last call of send_chunk_state_witness_to_chunk_validators
    last_call,              \* last call of process_chunk_state_witness
    tasks,                  \* worker pool: slot -> task spawned by start_validating_chunk
    endorsements,           \* NetworkRequests::ChunkEndorsement messages in flight
    env_blocks,             \* in_memory_tries test: blocks produced in the TestEnv
    env_txs,                \* in_memory_tries test: transfers given to process_tx
    heads,                  \* in_memory_tries test: client -> head of its chain
    stores,                 \* in_memory_tries test: client -> blocks in its store
    mem_tries,              \* in_memory_tries test: client -> shard -> memtrie roots
    balances,               \* in_memory_tries test: the `balances` map of the test
    run,                    \* in_memory_tries test: which TestEnv is built (1..3)
    round,                  \* in_memory_tries test: `round` of the running loop
    phase,                  \* in_memory_tries test: position in the test function
    blocks_processed        \* in_memory_tries test: results of process_block_test

coreVars == <<blocks, chunk_extras, outgoing_receipts, state_transition_data,
              protocol_version, last_send, last_call, tasks, endorsements>>

testVars == <<env_blocks, env_txs, heads, stores, mem_tries, balances, run, round, phase,
              blocks_processed>>

vars == <<blocks, chunk_extras, outgoing_receipts, state_transition_data,
          protocol_version, last_send, last_call, tasks, endorsements,
          env_blocks, env_txs, heads, stores, mem_tries, balances, run, round, phase,
          blocks_processed>>

----------------------------------------------------------------------------
(* Bounds of the model. *)

\* Blocks on top of genesis.
MaxBlocks == 3
\* Heights skipped between blocks and their parents, over the whole chain.
MaxSkip == 1
\* Worker tasks alive at once.
MaxTasks == 2
\* Rows of state transition data the producer's store may have lost.
MaxMissingRows == 1

----------------------------------------------------------------------------
(* Primitive values. *)

DefaultHash == 0
GenesisHash == 1
ShardId == 0
EpochId == "epoch"
Accounts == <<"a0", "a1">>
NoSigner == "none"
Nodes == {"n_none", "n_a0", "n_a1"}

\* ChunkValidator::my_signer of each node, fixed at construction.
MySigner(node) ==
    CASE node = "n_a0" -> "a0"
      [] node = "n_a1" -> "a1"
      [] OTHER -> NoSigner

\* The protocol versions an epoch may run, and the one that enables
\* ProtocolFeature::ChunkValidation.
ChunkValidationVersion == 2
ProtocolVersions == {ChunkValidationVersion - 1, ChunkValidationVersion}

Range(s) == {s[i] : i \in 1..Len(s)}

\* near_primitives::hash::hash and the inner step of merklize.
Mix(a, b) == (a * 31 + b + 7) % 1000003

RECURSIVE HashSeq(_)
HashSeq(s) ==
    IF s = <<>> THEN 1
    ELSE Mix(HashSeq(SubSeq(s, 1, Len(s) - 1)), s[Len(s)])

\* hash(&borsh::to_vec(receipts))
HashReceipts(receipts) == Mix(HashSeq(receipts), 2)

\* merklize(items).0
Merklize(items) == Mix(HashSeq(items), 3)

\* Chain::build_receipts_hashes for a layout of one shard.
BuildReceiptsHashes(receipts) == <<HashReceipts(receipts)>>

Ok == [kind |-> "Ok", reason |-> "", at |-> 0]
Err(kind, reason, at) == [kind |-> kind, reason |-> reason, at |-> at]
InvalidChunkStateWitness(reason, at) == Err("InvalidChunkStateWitness", reason, at)

----------------------------------------------------------------------------
(* Chunk headers and chunk extras. *)

ChunkHash(h) ==
    HashSeq(<<h.shard_id, h.prev_block_hash, h.height_created, h.tx_root,
              h.prev_state_root, h.prev_outcome_root, h.prev_outgoing_receipts_root,
              h.prev_gas_used, h.gas_limit, h.prev_balance_burnt>>)

NewChunkExtra(state_root, outcome_root, validator_proposals, gas_used, gas_limit, balance_burnt) ==
    [state_root |-> state_root, outcome_root |-> outcome_root,
     validator_proposals |-> validator_proposals, gas_used |-> gas_used,
     gas_limit |-> gas_limit, balance_burnt |-> balance_burnt]

GenesisChunk ==
    [shard_id |-> ShardId, prev_block_hash |-> DefaultHash, height_created |-> 0,
     height_included |-> 0, tx_root |-> Merklize(<<>>), prev_state_root |-> 11,
     prev_outcome_root |-> 0, prev_outgoing_receipts_root |-> Merklize(BuildReceiptsHashes(<<>>)),
     prev_validator_proposals |-> <<>>, prev_gas_used |-> 0, gas_limit |-> 100,
     prev_balance_burnt |-> 0]

GenesisBlock ==
    [prev_hash |-> DefaultHash, height |-> 0, chunks |-> <<GenesisChunk>>,
     transactions |-> <<>>, incoming_receipts |-> <<>>, evolves |-> FALSE]

GenesisChunkExtra == NewChunkExtra(11, 0, <<>>, 0, 100, 0)

----------------------------------------------------------------------------
(* Chain store reads. *)

BlockKnown(hash) == hash \in 1..Len(blocks)

\* ChainStore::get_block / get_block_header
GetBlock(hash) == blocks[hash]

\* block.chunks().get(shard_id as usize)
HasShard(block, shard_id) == shard_id + 1 \in 1..Len(block.chunks)
ChunkOf(block, shard_id) == block.chunks[shard_id + 1]

\* ShardChunkHeader::is_new_chunk for the chunk a block carries.
IsNewChunk(block, shard_id) == ChunkOf(block, shard_id).height_included = block.height

RECURSIVE AncestorAtHeight(_, _)
\* The ancestor of `hash` (itself included) at `height`; DefaultHash when none.
AncestorAtHeight(hash, height) ==
    IF ~BlockKnown(hash) THEN DefaultHash
    ELSE IF GetBlock(hash).height = height THEN hash
    ELSE IF GetBlock(hash).height < height THEN DefaultHash
    ELSE AncestorAtHeight(GetBlock(hash).prev_hash, height)

RECURSIVE GetIncomingReceiptsForShard(_, _, _, _)
\* ChainStore::get_incoming_receipts_for_shard over the chain `bs`: one response per
\* block from `block_hash` back to the block at `last_chunk_height_included`
\* (excluded), newest first.
GetIncomingReceiptsForShard(bs, shard_id, block_hash, last_chunk_height_included) ==
    IF block_hash \notin 1..Len(bs) THEN <<>>
    ELSE IF bs[block_hash].height <= last_chunk_height_included THEN <<>>
    ELSE <<[block_hash |-> block_hash, receipts |-> bs[block_hash].incoming_receipts]>>
         \o GetIncomingReceiptsForShard(bs, shard_id, bs[block_hash].prev_hash,
                                        last_chunk_height_included)

RECURSIVE CollectReceiptsFromResponse(_)
\* near_chain::chain::collect_receipts_from_response
CollectReceiptsFromResponse(response) ==
    IF response = <<>> THEN <<>>
    ELSE Head(response).receipts \o CollectReceiptsFromResponse(Tail(response))

----------------------------------------------------------------------------
(* Runtime: apply_new_chunk and apply_old_chunk over recorded storage. *)

\* The trie nodes a transition starting at `root` reads, and the proof recorded for it.
NeededNodes(root) == {2 * root, 2 * root + 1}
RecordedNodes(root) == <<2 * root, 2 * root + 1>>

\* ApplyChunkResult of a new chunk.
NewChunkTransition(root, transactions, receipts, block) ==
    [new_root |-> Mix(Mix(Mix(root, HashSeq(transactions)), HashSeq(receipts)), block.height),
     outcomes |-> transactions \o receipts,
     outgoing_receipts |-> [i \in 1..Len(transactions) |-> Mix(transactions[i], block.height)],
     validator_proposals |-> <<>>,
     total_gas_burnt |-> 10 * (Len(transactions) + Len(receipts)),
     total_balance_burnt |-> Len(transactions)]

\* Whether the block changes the shard's state without a new chunk (validator
\* accounts update and the like).
StateEvolvesAt(block_hash) == GetBlock(block_hash).evolves

\* The state root after a block that carries no new chunk.
OldChunkTransition(root, block, evolves) ==
    IF evolves THEN Mix(root, 500 + block.height) ELSE root

\* apply_new_chunk: the transition over the recorded storage of `data`.
ApplyNewChunk(data) ==
    IF ~(NeededNodes(data.chunk_header.prev_state_root) \subseteq Range(data.storage))
    THEN [result |-> InvalidChunkStateWitness("missing trie node", data.block.block_hash)]
    ELSE [result |-> Ok,
          apply_result |-> NewChunkTransition(data.chunk_header.prev_state_root,
                                              data.transactions, data.receipts, data.block)]

\* apply_old_chunk: the transition over the recorded storage of `data`.
ApplyOldChunk(data) ==
    LET root == data.prev_chunk_extra.state_root
        evolves == StateEvolvesAt(data.block.block_hash)
    IN  IF evolves /\ ~(NeededNodes(root) \subseteq Range(data.storage))
        THEN [result |-> InvalidChunkStateWitness("missing trie node", data.block.block_hash)]
        ELSE [result |-> Ok,
              apply_result |-> [new_root |-> OldChunkTransition(root, data.block, evolves),
                                outcomes |-> <<>>,
                                outgoing_receipts |-> <<>>,
                                validator_proposals |-> <<>>,
                                total_gas_burnt |-> 0,
                                total_balance_burnt |-> 0]]

\* ApplyChunkResult::compute_outcomes_proof(outcomes).0
ComputeOutcomesProof(outcomes) == Merklize(outcomes)

\* apply_result_to_chunk_extra
ApplyResultToChunkExtra(apply_result, chunk) ==
    NewChunkExtra(apply_result.new_root,
                  ComputeOutcomesProof(apply_result.outcomes),
                  apply_result.validator_proposals,
                  apply_result.total_gas_burnt,
                  chunk.gas_limit,
                  apply_result.total_balance_burnt)

\* Chain::get_apply_chunk_block_context
GetApplyChunkBlockContext(block_hash, header, prev_header, is_new_chunk) ==
    [block_hash |-> block_hash, height |-> header.height,
     prev_block_hash |-> header.prev_hash, is_new_chunk |-> is_new_chunk]

----------------------------------------------------------------------------
(* Chunk production and block processing on the shared chain. *)

\* The transactions a chunk producer takes from the pool for a chunk at `height`.
TransactionsAt(height) == IF height % 2 = 1 THEN <<height>> ELSE <<>>

\* The block of the last new chunk at or before `hash`.
LastChunkBlockOf(hash) ==
    AncestorAtHeight(hash, ChunkOf(GetBlock(hash), ShardId).height_included)

\* Client::produce_chunk: the header of the chunk built on `prev_block_hash`.
ProduceChunkHeader(prev_block_hash, height) ==
    LET prev_extra == chunk_extras[prev_block_hash]
        outgoing == outgoing_receipts[LastChunkBlockOf(prev_block_hash)]
    IN  [shard_id |-> ShardId, prev_block_hash |-> prev_block_hash,
         height_created |-> height, height_included |-> 0,
         tx_root |-> Merklize(TransactionsAt(height)),
         prev_state_root |-> prev_extra.state_root,
         prev_outcome_root |-> prev_extra.outcome_root,
         prev_outgoing_receipts_root |-> Merklize(BuildReceiptsHashes(outgoing)),
         prev_validator_proposals |-> prev_extra.validator_proposals,
         prev_gas_used |-> prev_extra.gas_used,
         gas_limit |-> prev_extra.gas_limit,
         prev_balance_burnt |-> prev_extra.balance_burnt]

\* A block on `parent` at `height`: with a new chunk for the shard, or carrying
\* the parent's chunk on.
MakeBlock(parent, height, new_chunk, evolves) ==
    [prev_hash |-> parent, height |-> height,
     chunks |-> IF new_chunk
                THEN <<[ProduceChunkHeader(parent, height) EXCEPT !.height_included = height]>>
                ELSE GetBlock(parent).chunks,
     transactions |-> IF new_chunk THEN TransactionsAt(height) ELSE <<>>,
     incoming_receipts |-> IF new_chunk
                           THEN outgoing_receipts[LastChunkBlockOf(parent)]
                           ELSE <<>>,
     evolves |-> evolves]

\* A chain head: a block no block builds on.
IsHead(hash) == BlockKnown(hash) /\ \A b \in 1..Len(blocks) : GetBlock(b).prev_hash # hash

\* The heights skipped so far: no block stands at them on its own branch.
SkippedHeights ==
    LET gap(b) == IF b = GenesisHash THEN 0
                  ELSE GetBlock(b).height - GetBlock(GetBlock(b).prev_hash).height - 1
        RECURSIVE Sum(_)
        Sum(b) == IF b = 0 THEN 0 ELSE gap(b) + Sum(b - 1)
    IN  Sum(Len(blocks))

\* Block production and processing: the block is appended to the chain and the
\* shard's chunk is applied, which stores the chunk extra, the outgoing receipts
\* and the state transition data of the block.
AddBlock(parent, skip, new_chunk, evolves) ==
    /\ Len(blocks) < MaxBlocks + 1
    /\ ~last_send.called /\ ~last_call.called
    /\ BlockKnown(parent)
    /\ parent >= blocks[Len(blocks)].prev_hash
    /\ SkippedHeights + skip <= MaxSkip
    /\ new_chunk => ~evolves
    /\ LET height == GetBlock(parent).height + 1 + skip
           hash == Len(blocks) + 1
           block == MakeBlock(parent, height, new_chunk, evolves)
           bs == Append(blocks, block)
           block_context == GetApplyChunkBlockContext(hash, block, GetBlock(parent), new_chunk)
           chunk == ChunkOf(block, ShardId)
           prev_extra == chunk_extras[parent]
           receipts == CollectReceiptsFromResponse(
                           GetIncomingReceiptsForShard(bs, ShardId, hash,
                               ChunkOf(GetBlock(parent), ShardId).height_included))
           apply_result == NewChunkTransition(chunk.prev_state_root, block.transactions,
                                              receipts, block_context)
       IN  /\ blocks' = bs
           /\ chunk_extras' = Append(chunk_extras,
                 IF new_chunk
                 THEN ApplyResultToChunkExtra(apply_result, chunk)
                 ELSE [prev_extra EXCEPT !.state_root =
                          OldChunkTransition(prev_extra.state_root, block_context, evolves)])
           /\ outgoing_receipts' = Append(outgoing_receipts,
                 IF new_chunk THEN apply_result.outgoing_receipts ELSE <<>>)
           /\ state_transition_data' = Append(state_transition_data,
                 [present |-> TRUE,
                  base_state |-> IF new_chunk THEN RecordedNodes(chunk.prev_state_root)
                                 ELSE IF evolves THEN RecordedNodes(prev_extra.state_root)
                                 ELSE <<>>,
                  receipts_hash |-> IF new_chunk THEN HashReceipts(receipts)
                                    ELSE DefaultHash])
    /\ UNCHANGED <<protocol_version, last_send, last_call, tasks, endorsements>>
    /\ UNCHANGED testVars

----------------------------------------------------------------------------
(* Epoch manager. *)

\* An epoch manager that has the feature at every version.
AlwaysEnabled(version) == TRUE

\* checked_feature!("stable", ChunkValidation, protocol_version)
ChunkValidationEnabled(version) == version >= ChunkValidationVersion

\* EpochManagerAdapter::get_epoch_id_from_prev_block
GetEpochIdFromPrevBlock(prev_block_hash) ==
    IF BlockKnown(prev_block_hash)
    THEN [result |-> Ok, epoch_id |-> EpochId]
    ELSE [result |-> Err("DBNotFound", "epoch of block", prev_block_hash)]

\* EpochManagerAdapter::get_chunk_validators: the key set of the assignment. It is
\* empty before the protocol upgrade.
GetChunkValidators(epoch_id, shard_id, height) ==
    IF ChunkValidationEnabled(protocol_version)
    THEN {Accounts[(height % 2) + 1]}
    ELSE {}

\* EpochManagerAdapter::get_block_producer
GetBlockProducer(epoch_id, height) == Accounts[((height \div 2) % 2) + 1]

\* ValidatorSigner::sign_chunk_endorsement
SignChunkEndorsement(signer, inner) == Mix(HashSeq(<<inner.chunk_hash>>), IF signer = "a0" THEN 4 ELSE 5)

----------------------------------------------------------------------------
(* Witness builder: Client::collect_state_transition_data and                *)
(* Client::send_chunk_state_witness_to_chunk_validators.                     *)

Reverse(s) == [i \in 1..Len(s) |-> s[Len(s) + 1 - i]]

RECURSIVE GetBlocksUntilHeight(_, _, _)
\* Chain::get_blocks_until_height: the hashes from `last_hash` back to the first
\* block at a height <= `first_height`, which is included when `include_at_height`.
GetBlocksUntilHeight(last_hash, first_height, include_at_height) ==
    IF ~BlockKnown(last_hash)
    THEN [result |-> Err("DBNotFound", "block header", last_hash)]
    ELSE IF GetBlock(last_hash).height <= first_height
    THEN [result |-> Ok, hashes |-> IF include_at_height THEN <<last_hash>> ELSE <<>>]
    ELSE LET rest == GetBlocksUntilHeight(GetBlock(last_hash).prev_hash, first_height,
                                          include_at_height)
         IN  IF rest.result # Ok THEN rest
             ELSE [result |-> Ok, hashes |-> <<last_hash>> \o rest.hashes]

\* store.get_ser(DBCol::StateTransitionData, get_block_shard_id(block, shard_id))
HasStateTransitionData(rows, block_hash) ==
    block_hash \in 1..Len(rows) /\ rows[block_hash].present

\* ChainStore::get_chunk: the transactions of the chunk with `chunk_hash`.
ChunkBlocks(chunk_hash) ==
    {b \in 1..Len(blocks) : /\ IsNewChunk(GetBlock(b), ShardId)
                            /\ ChunkHash(ChunkOf(GetBlock(b), ShardId)) = chunk_hash}
GetChunk(chunk_hash) ==
    IF ChunkBlocks(chunk_hash) = {}
    THEN [result |-> Err("ChunkMissing", "", 0)]
    ELSE [result |-> Ok,
          transactions |-> GetBlock(CHOOSE b \in ChunkBlocks(chunk_hash) : TRUE).transactions]

\* A ChunkStateTransition that declares the state root before the block.
StateTransitionOfParentRoot(rows, block_hash) ==
    [block_hash |-> block_hash,
     base_state |-> rows[block_hash].base_state,
     post_state_root |-> chunk_extras[GetBlock(block_hash).prev_hash].state_root]

\* One ChunkStateTransition of the witness, from the row and the chunk extra of the block.
StateTransitionOf(rows, block_hash) ==
    [block_hash |-> block_hash,
     base_state |-> rows[block_hash].base_state,
     post_state_root |-> chunk_extras[block_hash].state_root]

\* A builder that takes every row to be there.
AllRowsPresent(rows, hashes) == 0

\* The first block of `hashes` without a StateTransitionData row; 0 when none.
FirstMissingRow(rows, hashes) ==
    IF \A i \in 1..Len(hashes) : HasStateTransitionData(rows, hashes[i]) THEN 0
    ELSE hashes[CHOOSE i \in 1..Len(hashes) :
                    /\ ~HasStateTransitionData(rows, hashes[i])
                    /\ \A j \in 1..(i - 1) : HasStateTransitionData(rows, hashes[j])]

\* A builder that keeps the window as the store returns it, newest first.
NewestFirst(hashes) == hashes

\* prev_blocks.reverse()
OldestFirst(hashes) == Reverse(hashes)

\* A thread that panicked at `what`.
Panicked(what) == Err("Panic", what, 0)

\* <[T]>::split_first: None on an empty slice.
SplitFirst(s) == IF s = <<>> THEN <<>> ELSE <<[first |-> Head(s), rest |-> Tail(s)]>>

\* A builder that asks for the blocks after the one at height_included only.
CollectStateTransitionDataExclusive(rows, chunk_header, prev_chunk_header) ==
    LET epoch == GetEpochIdFromPrevBlock(chunk_header.prev_block_hash)
        got == GetBlocksUntilHeight(chunk_header.prev_block_hash,
                                    prev_chunk_header.height_included, FALSE)
    IN  IF epoch.result # Ok THEN [result |-> epoch.result]
        ELSE IF got.result # Ok THEN [result |-> got.result]
        ELSE IF SplitFirst(OldestFirst(got.hashes)) = <<>>
        THEN [result |-> Panicked("split_first().unwrap()")]
        ELSE LET prev_blocks == OldestFirst(got.hashes)
                 main_block == Head(prev_blocks)
                 implicit_blocks == Tail(prev_blocks)
                 missing == FirstMissingRow(rows, prev_blocks)
             IN  IF missing # 0
                 THEN [result |-> Err("Other", "Missing state proof", missing)]
                 ELSE [result |-> Ok,
                       main_transition |-> StateTransitionOf(rows, main_block),
                       implicit_transitions |->
                           [i \in 1..Len(implicit_blocks) |->
                               StateTransitionOf(rows, implicit_blocks[i])],
                       receipts_hash |-> rows[main_block].receipts_hash]

\* Client::collect_state_transition_data
CollectStateTransitionData(rows, chunk_header, prev_chunk_header) ==
    LET epoch == GetEpochIdFromPrevBlock(chunk_header.prev_block_hash)
        got == GetBlocksUntilHeight(chunk_header.prev_block_hash,
                                    prev_chunk_header.height_included, TRUE)
    IN  IF epoch.result # Ok THEN [result |-> epoch.result]
        ELSE IF got.result # Ok THEN [result |-> got.result]
        ELSE IF SplitFirst(OldestFirst(got.hashes)) = <<>>
        THEN [result |-> Panicked("split_first().unwrap()")]
        ELSE LET prev_blocks == OldestFirst(got.hashes)
                 main_block == Head(prev_blocks)
                 implicit_blocks == Tail(prev_blocks)
                 missing == FirstMissingRow(rows, prev_blocks)
             IN  IF missing # 0
                 THEN [result |-> Err("Other", "Missing state proof", missing)]
                 ELSE [result |-> Ok,
                       main_transition |-> StateTransitionOf(rows, main_block),
                       implicit_transitions |->
                           [i \in 1..Len(implicit_blocks) |->
                               StateTransitionOf(rows, implicit_blocks[i])],
                       receipts_hash |-> rows[main_block].receipts_hash]

\* A builder that takes no chunk for the genesis chunk.
NeverGenesisChunk(prev_chunk_header) == FALSE

\* prev_chunk_header.prev_block_hash() == &CryptoHash::default()
IsGenesisChunk(prev_chunk_header) == prev_chunk_header.prev_block_hash = DefaultHash

\* The ChunkStateWitness assembled from the chunk, the previous chunk and the
\* collected state transition data.
NewChunkStateWitness(chunk, prev_chunk, data) ==
    [chunk_header |-> chunk.header,
     main_state_transition |-> data.main_transition,
     source_receipt_proofs |-> {},
     transactions |-> prev_chunk.transactions,
     applied_receipts_hash |-> data.receipts_hash,
     implicit_transitions |-> data.implicit_transitions,
     new_transactions |-> chunk.transactions,
     new_transactions_validation_state |-> <<>>]

\* Client::send_chunk_state_witness_to_chunk_validators: the result and the
\* requests handed to the network adapter.
SendChunkStateWitnessToChunkValidators(rows, epoch_id, prev_chunk_header, chunk) ==
    IF ~ChunkValidationEnabled(protocol_version)
    THEN [result |-> Ok, sent |-> <<>>, trace |-> <<"get_epoch_protocol_version">>]
    ELSE IF IsGenesisChunk(prev_chunk_header)
    THEN [result |-> Ok, sent |-> <<>>, trace |-> <<"get_epoch_protocol_version">>]
    ELSE LET chunk_header == chunk.header
             chunk_validators == GetChunkValidators(epoch_id, chunk_header.shard_id,
                                                    chunk_header.height_created)
             prev_chunk == GetChunk(ChunkHash(prev_chunk_header))
             data == CollectStateTransitionData(rows, chunk_header, prev_chunk_header)
         IN  IF prev_chunk.result # Ok
             THEN [result |-> prev_chunk.result, sent |-> <<>>,
                   trace |-> <<"get_epoch_protocol_version", "get_chunk_validators",
                               "get_chunk">>]
             ELSE IF data.result # Ok
             THEN [result |-> data.result, sent |-> <<>>,
                   trace |-> <<"get_epoch_protocol_version", "get_chunk_validators",
                               "get_chunk", "collect_state_transition_data">>]
             ELSE [result |-> Ok,
                   trace |-> <<"get_epoch_protocol_version", "get_chunk_validators",
                               "get_chunk", "collect_state_transition_data",
                               "network_adapter.send">>,
                   sent |-> <<[recipients |-> chunk_validators,
                               witness |-> NewChunkStateWitness(chunk, prev_chunk, data)]>>]

NoSend == [called |-> FALSE, prev_block_hash |-> DefaultHash,
           prev_chunk_header |-> GenesisChunk, result |-> Ok, sent |-> <<>>,
           trace |-> <<>>]

\* The blocks whose rows the witness of the chunk on `prev_block_hash` is built from.
RowsReadFor(prev_block_hash) ==
    LET got == GetBlocksUntilHeight(prev_block_hash,
                   ChunkOf(GetBlock(prev_block_hash), ShardId).height_included, TRUE)
    IN  IF got.result = Ok THEN Range(got.hashes) \ {GenesisHash} ELSE {}

\* A chunk producer builds the chunk on `prev_block_hash` and distributes its
\* witness, its store having lost the rows of the blocks in `lost` by then.
ProduceChunkAndSendWitness(prev_block_hash, lost) ==
    /\ ~last_send.called
    /\ IsHead(prev_block_hash)
    /\ lost \subseteq RowsReadFor(prev_block_hash)
    /\ Cardinality(lost) <= MaxMissingRows
    /\ LET rows == [b \in 1..Len(state_transition_data) |->
                       IF b \in lost
                       THEN [state_transition_data[b] EXCEPT !.present = FALSE]
                       ELSE state_transition_data[b]]
           height == GetBlock(prev_block_hash).height + 1
           chunk == [header |-> ProduceChunkHeader(prev_block_hash, height),
                     transactions |-> TransactionsAt(height)]
           out == SendChunkStateWitnessToChunkValidators(
                      rows, EpochId, ChunkOf(GetBlock(prev_block_hash), ShardId), chunk)
       IN  /\ state_transition_data' = rows
           /\ last_send' = [called |-> TRUE, prev_block_hash |-> prev_block_hash,
                            prev_chunk_header |-> ChunkOf(GetBlock(prev_block_hash), ShardId),
                            result |-> out.result, sent |-> out.sent, trace |-> out.trace]
    /\ UNCHANGED <<blocks, chunk_extras, outgoing_receipts,
                   protocol_version, last_call, tasks, endorsements>>
    /\ UNCHANGED testVars

\* The previous chunk header a caller may hand to the builder for the chunk on
\* `prev_block_hash`: that of the chunk the parent block carries, recorded as
\* included at any height up to one above the parent's.
PrevChunkHeaders(prev_block_hash) ==
    {[ChunkOf(GetBlock(prev_block_hash), ShardId) EXCEPT !.height_included = h] :
        h \in 0..(GetBlock(prev_block_hash).height + 1)}

\* Client::send_chunk_state_witness_to_chunk_validators called for the chunk on
\* `prev_block_hash` with `prev_chunk_header` as its argument.
SendWitnessWithPrevChunk(prev_block_hash, prev_chunk_header) ==
    /\ ~last_send.called
    /\ IsHead(prev_block_hash)
    /\ prev_chunk_header \in PrevChunkHeaders(prev_block_hash)
    /\ LET height == GetBlock(prev_block_hash).height + 1
           chunk == [header |-> ProduceChunkHeader(prev_block_hash, height),
                     transactions |-> TransactionsAt(height)]
           out == SendChunkStateWitnessToChunkValidators(
                      state_transition_data, EpochId, prev_chunk_header, chunk)
       IN  last_send' = [called |-> TRUE, prev_block_hash |-> prev_block_hash,
                         prev_chunk_header |-> prev_chunk_header,
                         result |-> out.result, sent |-> out.sent, trace |-> out.trace]
    /\ UNCHANGED <<blocks, chunk_extras, outgoing_receipts, state_transition_data,
                   protocol_version, last_call, tasks, endorsements>>
    /\ UNCHANGED testVars

----------------------------------------------------------------------------
(* Pre-validator: pre_validate_chunk_state_witness. *)

RECURSIVE WalkBackInStoreOrder(_, _, _, _, _)
\* A loop that goes back to the block stored just before, whatever its branch.
WalkBackInStoreOrder(shard_id, block_hash, prev_chunks_seen, blocks_after_last_chunk, blocks_after_last_last_chunk) ==
    IF ~BlockKnown(block_hash)
    THEN [result |-> Err("DBNotFound", "block", block_hash)]
    ELSE LET block == GetBlock(block_hash)
             is_new_chunk == IsNewChunk(block, shard_id)
             after_last == IF prev_chunks_seen = 0
                           THEN Append(blocks_after_last_chunk, block_hash)
                           ELSE blocks_after_last_chunk
             after_last_last == IF prev_chunks_seen = 1
                                THEN Append(blocks_after_last_last_chunk, block_hash)
                                ELSE blocks_after_last_last_chunk
             seen == IF is_new_chunk THEN prev_chunks_seen + 1 ELSE prev_chunks_seen
         IN  IF seen = 2
             THEN [result |-> Ok,
                   blocks_after_last_chunk |-> after_last,
                   blocks_after_last_last_chunk |-> after_last_last]
             ELSE WalkBackInStoreOrder(shard_id, block_hash - 1, seen, after_last,
                                       after_last_last)

RECURSIVE WalkBackFilesTwice(_, _, _, _, _)
\* A loop that files the block of the last new chunk in both lists.
WalkBackFilesTwice(shard_id, block_hash, prev_chunks_seen, blocks_after_last_chunk, blocks_after_last_last_chunk) ==
    IF ~BlockKnown(block_hash)
    THEN [result |-> Err("DBNotFound", "block", block_hash)]
    ELSE IF ~HasShard(GetBlock(block_hash), shard_id)
    THEN [result |-> InvalidChunkStateWitness("shard does not exist in block", block_hash)]
    ELSE LET block == GetBlock(block_hash)
             is_new_chunk == IsNewChunk(block, shard_id)
             after_last == IF prev_chunks_seen = 0
                           THEN Append(blocks_after_last_chunk, block_hash)
                           ELSE blocks_after_last_chunk
             after_last_last == IF prev_chunks_seen = 1 \/ (prev_chunks_seen = 0 /\ is_new_chunk)
                                THEN Append(blocks_after_last_last_chunk, block_hash)
                                ELSE blocks_after_last_last_chunk
             seen == IF is_new_chunk THEN prev_chunks_seen + 1 ELSE prev_chunks_seen
         IN  IF seen = 2
             THEN [result |-> Ok,
                   blocks_after_last_chunk |-> after_last,
                   blocks_after_last_last_chunk |-> after_last_last]
             ELSE WalkBackFilesTwice(shard_id, block.prev_hash, seen, after_last,
                                     after_last_last)

RECURSIVE WalkBackSkipsMissingShard(_, _, _, _, _)
\* A loop that passes over a block that has no chunk for the shard.
WalkBackSkipsMissingShard(shard_id, block_hash, prev_chunks_seen, blocks_after_last_chunk, blocks_after_last_last_chunk) ==
    IF ~BlockKnown(block_hash)
    THEN [result |-> Err("DBNotFound", "block", block_hash)]
    ELSE IF ~HasShard(GetBlock(block_hash), shard_id)
    THEN WalkBackSkipsMissingShard(shard_id, GetBlock(block_hash).prev_hash,
                                   prev_chunks_seen, blocks_after_last_chunk,
                                   blocks_after_last_last_chunk)
    ELSE LET block == GetBlock(block_hash)
             is_new_chunk == IsNewChunk(block, shard_id)
             after_last == IF prev_chunks_seen = 0
                           THEN Append(blocks_after_last_chunk, block_hash)
                           ELSE blocks_after_last_chunk
             after_last_last == IF prev_chunks_seen = 1
                                THEN Append(blocks_after_last_last_chunk, block_hash)
                                ELSE blocks_after_last_last_chunk
             seen == IF is_new_chunk THEN prev_chunks_seen + 1 ELSE prev_chunks_seen
         IN  IF seen = 2
             THEN [result |-> Ok,
                   blocks_after_last_chunk |-> after_last,
                   blocks_after_last_last_chunk |-> after_last_last]
             ELSE WalkBackSkipsMissingShard(shard_id, block.prev_hash, seen, after_last,
                                            after_last_last)

RECURSIVE WalkBackEndsWithHistory(_, _, _, _, _)
\* A walk that, when the history ends after one new chunk, takes the oldest
\* block it read as the second boundary.
WalkBackEndsWithHistory(shard_id, block_hash, prev_chunks_seen, blocks_after_last_chunk, blocks_after_last_last_chunk) ==
    IF ~BlockKnown(block_hash)
    THEN [result |-> Err("DBNotFound", "block", block_hash)]
    ELSE IF ~HasShard(GetBlock(block_hash), shard_id)
    THEN [result |-> InvalidChunkStateWitness("shard does not exist in block", block_hash)]
    ELSE LET block == GetBlock(block_hash)
             is_new_chunk == IsNewChunk(block, shard_id)
             after_last == IF prev_chunks_seen = 0
                           THEN Append(blocks_after_last_chunk, block_hash)
                           ELSE blocks_after_last_chunk
             after_last_last == IF prev_chunks_seen = 1
                                THEN Append(blocks_after_last_last_chunk, block_hash)
                                ELSE blocks_after_last_last_chunk
             seen == IF is_new_chunk THEN prev_chunks_seen + 1 ELSE prev_chunks_seen
         IN  IF seen = 2
             THEN [result |-> Ok,
                   blocks_after_last_chunk |-> after_last,
                   blocks_after_last_last_chunk |-> after_last_last]
             ELSE IF seen = 1 /\ ~BlockKnown(block.prev_hash)
             THEN [result |-> Ok,
                   blocks_after_last_chunk |-> after_last,
                   blocks_after_last_last_chunk |->
                       IF after_last_last = <<>> THEN <<block_hash>> ELSE after_last_last]
             ELSE WalkBackEndsWithHistory(shard_id, block.prev_hash, seen,
                                          after_last, after_last_last)

RECURSIVE WalkBack(_, _, _, _, _)
\* The loop that goes back through the chain from the parent of the proposed
\* chunk until two new chunks of the shard have been seen.
WalkBack(shard_id, block_hash, prev_chunks_seen, blocks_after_last_chunk, blocks_after_last_last_chunk) ==
    IF ~BlockKnown(block_hash)
    THEN [result |-> Err("DBNotFound", "block", block_hash)]
    ELSE IF ~HasShard(GetBlock(block_hash), shard_id)
    THEN [result |-> InvalidChunkStateWitness("shard does not exist in block", block_hash)]
    ELSE LET block == GetBlock(block_hash)
             is_new_chunk == IsNewChunk(block, shard_id)
             after_last == IF prev_chunks_seen = 0
                           THEN Append(blocks_after_last_chunk, block_hash)
                           ELSE blocks_after_last_chunk
             after_last_last == IF prev_chunks_seen = 1
                                THEN Append(blocks_after_last_last_chunk, block_hash)
                                ELSE blocks_after_last_last_chunk
             seen == IF is_new_chunk THEN prev_chunks_seen + 1 ELSE prev_chunks_seen
         IN  IF seen = 2
             THEN [result |-> Ok,
                   blocks_after_last_chunk |-> after_last,
                   blocks_after_last_last_chunk |-> after_last_last]
             ELSE WalkBack(shard_id, block.prev_hash, seen, after_last, after_last_last)

\* Block contexts in the order the walk met the blocks, newest first.
ImplicitTransitionParamsNewestFirst(implicit_transition_blocks) ==
    [i \in 1..Len(implicit_transition_blocks) |->
        GetApplyChunkBlockContext(implicit_transition_blocks[i],
            GetBlock(implicit_transition_blocks[i]),
            GetBlock(GetBlock(implicit_transition_blocks[i]).prev_hash), FALSE)]

\* implicit_transition_blocks.into_iter().rev(): one block context per implicit
\* block, oldest first.
ImplicitTransitionParams(implicit_transition_blocks) ==
    LET chronological == Reverse(implicit_transition_blocks)
    IN  [i \in 1..Len(chronological) |->
            GetApplyChunkBlockContext(chronological[i], GetBlock(chronological[i]),
                GetBlock(GetBlock(chronological[i]).prev_hash), FALSE)]

\* A pre-validator that does not compare the receipts hash.
ReceiptsHashUnchecked(applied_receipts_hash, state_witness) == TRUE

\* The receipts-hash check of pre-validation.
ReceiptsHashMatches(applied_receipts_hash, state_witness) ==
    applied_receipts_hash = state_witness.applied_receipts_hash

\* A pre-validator that does not compare the transaction root.
TxRootUnchecked(last_new_chunk_tx_root, state_witness) == TRUE

\* The transaction-root check of pre-validation.
TxRootMatches(last_new_chunk_tx_root, state_witness) ==
    last_new_chunk_tx_root = Merklize(state_witness.transactions)

\* pre_validate_chunk_state_witness
PreValidateChunkStateWitness(state_witness) ==
    LET shard_id == state_witness.chunk_header.shard_id
        walk == WalkBack(shard_id, state_witness.chunk_header.prev_block_hash, 0, <<>>, <<>>)
    IN  IF walk.result # Ok THEN [result |-> walk.result]
        ELSE
        LET after_last == walk.blocks_after_last_chunk
            after_last_last == walk.blocks_after_last_last_chunk
            last_chunk_block == after_last[Len(after_last)]
            implicit_transition_blocks == SubSeq(after_last, 1, Len(after_last) - 1)
            receipts_response ==
                GetIncomingReceiptsForShard(blocks, shard_id, last_chunk_block,
                    GetBlock(after_last_last[Len(after_last_last)]).height)
            receipts_to_apply == CollectReceiptsFromResponse(receipts_response)
            applied_receipts_hash == HashReceipts(receipts_to_apply)
            last_new_chunk == ChunkOf(GetBlock(last_chunk_block), shard_id)
        IN  IF ~ReceiptsHashMatches(applied_receipts_hash, state_witness)
            THEN [result |-> InvalidChunkStateWitness("receipts hash", 0)]
            ELSE IF ~TxRootMatches(last_new_chunk.tx_root, state_witness)
            THEN [result |-> InvalidChunkStateWitness("transaction root", 0)]
            ELSE IF ~BlockKnown(GetBlock(last_chunk_block).prev_hash)
            THEN [result |-> Err("DBNotFound", "previous header", last_chunk_block)]
            ELSE [result |-> Ok,
                  main_transition_params |->
                      [chunk_header |-> last_new_chunk,
                       transactions |-> state_witness.transactions,
                       receipts |-> receipts_to_apply,
                       block |-> GetApplyChunkBlockContext(last_chunk_block,
                                     GetBlock(last_chunk_block),
                                     GetBlock(GetBlock(last_chunk_block).prev_hash), TRUE),
                       storage |-> state_witness.main_state_transition.base_state],
                  implicit_transition_params |->
                      ImplicitTransitionParams(implicit_transition_blocks)]

----------------------------------------------------------------------------
(* Transition replayer: validate_chunk_state_witness. *)

\* near_chain::validate::validate_chunk_with_chunk_extra_and_receipts_root
ValidateChunkWithChunkExtraAndReceiptsRoot(chunk_extra, chunk_header, receipts_root) ==
    IF chunk_extra.state_root # chunk_header.prev_state_root
    THEN InvalidChunkStateWitness("state root", 0)
    ELSE IF chunk_extra.outcome_root # chunk_header.prev_outcome_root
    THEN InvalidChunkStateWitness("outcome root", 0)
    ELSE IF chunk_extra.validator_proposals # chunk_header.prev_validator_proposals
    THEN InvalidChunkStateWitness("validator proposals", 0)
    ELSE IF chunk_extra.gas_limit # chunk_header.gas_limit
    THEN InvalidChunkStateWitness("gas limit", 0)
    ELSE IF chunk_extra.gas_used # chunk_header.prev_gas_used
    THEN InvalidChunkStateWitness("gas used", 0)
    ELSE IF chunk_extra.balance_burnt # chunk_header.prev_balance_burnt
    THEN InvalidChunkStateWitness("balance burnt", 0)
    ELSE IF receipts_root # chunk_header.prev_outgoing_receipts_root
    THEN InvalidChunkStateWitness("outgoing receipts root", 0)
    ELSE Ok

\* A replayer without the early check of the main transition.
MainPostStateRootUnchecked(chunk_extra, state_witness) == TRUE

\* An early check that compares the main transition's root with the proposed
\* chunk's prev_state_root.
MainPostStateRootAgainstHeader(chunk_extra, state_witness) ==
    chunk_extra.state_root = state_witness.chunk_header.prev_state_root

\* The early check of the main transition's post state root.
MainPostStateRootMatches(chunk_extra, state_witness) ==
    chunk_extra.state_root = state_witness.main_state_transition.post_state_root

\* A replayer without the early check of an implicit transition.
ImplicitPostStateRootUnchecked(chunk_extra, transition) == TRUE

\* The early check of an implicit transition's post state root.
ImplicitPostStateRootMatches(chunk_extra, transition) ==
    chunk_extra.state_root = transition.post_state_root

\* The number of (block, transition) pairs the zip yields.
ZipLength(implicit_transition_params, implicit_transitions) ==
    IF Len(implicit_transition_params) < Len(implicit_transitions)
    THEN Len(implicit_transition_params)
    ELSE Len(implicit_transitions)

\* A replayer without the final check against the proposed header.
FinalCheckSkipped(state_witness, chunk_extra, outgoing) == Ok

\* The final check against the proposed chunk header.
FinalCheck(state_witness, chunk_extra, outgoing) ==
    ValidateChunkWithChunkExtraAndReceiptsRoot(
        chunk_extra, state_witness.chunk_header, Merklize(BuildReceiptsHashes(outgoing)))

RECURSIVE ImplicitTransitionsLoopFromMain(_, _, _, _, _, _)
\* A loop that starts every implicit transition from the chunk extra of the main
\* transition.
ImplicitTransitionsLoopFromMain(state_witness, params, k, chunk_extra, outgoing, log) ==
    IF k > ZipLength(params, state_witness.implicit_transitions)
    THEN [result |-> FinalCheck(state_witness, chunk_extra, outgoing),
          chunk_extra |-> chunk_extra, outgoing_receipts |-> outgoing,
          log |-> Append(log, [step |-> "final", block_hash |-> 0, chunk_extra |-> chunk_extra])]
    ELSE LET block == params[k]
             transition == state_witness.implicit_transitions[k]
             applied == ApplyOldChunk([prev_chunk_extra |-> log[1].chunk_extra,
                                       block |-> block,
                                       storage |-> transition.base_state])
         IN  IF applied.result # Ok
             THEN [result |-> applied.result, chunk_extra |-> chunk_extra,
                   outgoing_receipts |-> outgoing, log |-> log]
             ELSE LET next_extra == [chunk_extra EXCEPT
                                        !.state_root = applied.apply_result.new_root]
                      next_log == Append(log, [step |-> "implicit",
                                               block_hash |-> block.block_hash,
                                               chunk_extra |-> next_extra])
                  IN  IF ~ImplicitPostStateRootMatches(next_extra, transition)
                      THEN [result |-> InvalidChunkStateWitness(
                                           "implicit post state root", block.block_hash),
                            chunk_extra |-> next_extra, outgoing_receipts |-> outgoing,
                            log |-> next_log]
                      ELSE ImplicitTransitionsLoopFromMain(state_witness, params, k + 1,
                                                           next_extra, outgoing, next_log)

RECURSIVE ImplicitTransitionsLoopWholeExtra(_, _, _, _, _, _)
\* A loop that rebuilds the whole chunk extra, and the outgoing receipts, from
\* the result of every implicit transition.
ImplicitTransitionsLoopWholeExtra(state_witness, params, k, chunk_extra, outgoing, log) ==
    IF k > ZipLength(params, state_witness.implicit_transitions)
    THEN [result |-> FinalCheck(state_witness, chunk_extra, outgoing),
          chunk_extra |-> chunk_extra, outgoing_receipts |-> outgoing,
          log |-> Append(log, [step |-> "final", block_hash |-> 0, chunk_extra |-> chunk_extra])]
    ELSE LET block == params[k]
             transition == state_witness.implicit_transitions[k]
             applied == ApplyOldChunk([prev_chunk_extra |-> chunk_extra,
                                       block |-> block,
                                       storage |-> transition.base_state])
         IN  IF applied.result # Ok
             THEN [result |-> applied.result, chunk_extra |-> chunk_extra,
                   outgoing_receipts |-> outgoing, log |-> log]
             ELSE LET next_extra == ApplyResultToChunkExtra(applied.apply_result,
                                        [gas_limit |-> chunk_extra.gas_limit])
                      next_outgoing == applied.apply_result.outgoing_receipts
                      next_log == Append(log, [step |-> "implicit",
                                               block_hash |-> block.block_hash,
                                               chunk_extra |-> next_extra])
                  IN  IF ~ImplicitPostStateRootMatches(next_extra, transition)
                      THEN [result |-> InvalidChunkStateWitness(
                                           "implicit post state root", block.block_hash),
                            chunk_extra |-> next_extra, outgoing_receipts |-> next_outgoing,
                            log |-> next_log]
                      ELSE ImplicitTransitionsLoopWholeExtra(state_witness, params, k + 1,
                                                             next_extra, next_outgoing, next_log)

RECURSIVE ImplicitTransitionsLoopDeclaredBlocks(_, _, _, _, _, _)
\* A loop that applies the block each implicit transition of the witness names.
ImplicitTransitionsLoopDeclaredBlocks(state_witness, params, k, chunk_extra, outgoing, log) ==
    IF k > ZipLength(params, state_witness.implicit_transitions)
    THEN [result |-> FinalCheck(state_witness, chunk_extra, outgoing),
          chunk_extra |-> chunk_extra, outgoing_receipts |-> outgoing,
          log |-> Append(log, [step |-> "final", block_hash |-> 0, chunk_extra |-> chunk_extra])]
    ELSE LET transition == state_witness.implicit_transitions[k]
             block == [params[k] EXCEPT !.block_hash = transition.block_hash]
             applied == ApplyOldChunk([prev_chunk_extra |-> chunk_extra,
                                       block |-> block,
                                       storage |-> transition.base_state])
         IN  IF applied.result # Ok
             THEN [result |-> applied.result, chunk_extra |-> chunk_extra,
                   outgoing_receipts |-> outgoing, log |-> log]
             ELSE LET next_extra == [chunk_extra EXCEPT
                                        !.state_root = applied.apply_result.new_root]
                      next_log == Append(log, [step |-> "implicit",
                                               block_hash |-> block.block_hash,
                                               chunk_extra |-> next_extra])
                  IN  IF ~ImplicitPostStateRootMatches(next_extra, transition)
                      THEN [result |-> InvalidChunkStateWitness(
                                           "implicit post state root", block.block_hash),
                            chunk_extra |-> next_extra, outgoing_receipts |-> outgoing,
                            log |-> next_log]
                      ELSE ImplicitTransitionsLoopDeclaredBlocks(state_witness, params,
                               k + 1, next_extra, outgoing, next_log)

RECURSIVE ImplicitTransitionsLoop(_, _, _, _, _, _)
\* The loop over the implicit transitions, from the k-th pair on, and what follows
\* it. `log` lists the transitions applied so far.
ImplicitTransitionsLoop(state_witness, params, k, chunk_extra, outgoing, log) ==
    IF k > ZipLength(params, state_witness.implicit_transitions)
    THEN [result |-> FinalCheck(state_witness, chunk_extra, outgoing),
          chunk_extra |-> chunk_extra, outgoing_receipts |-> outgoing,
          log |-> Append(log, [step |-> "final", block_hash |-> 0, chunk_extra |-> chunk_extra])]
    ELSE LET block == params[k]
             transition == state_witness.implicit_transitions[k]
             applied == ApplyOldChunk([prev_chunk_extra |-> chunk_extra,
                                       block |-> block,
                                       storage |-> transition.base_state])
         IN  IF applied.result # Ok
             THEN [result |-> applied.result, chunk_extra |-> chunk_extra,
                   outgoing_receipts |-> outgoing, log |-> log]
             ELSE LET next_extra == [chunk_extra EXCEPT
                                        !.state_root = applied.apply_result.new_root]
                      next_log == Append(log, [step |-> "implicit",
                                               block_hash |-> block.block_hash,
                                               chunk_extra |-> next_extra])
                  IN  IF ~ImplicitPostStateRootMatches(next_extra, transition)
                      THEN [result |-> InvalidChunkStateWitness(
                                           "implicit post state root", block.block_hash),
                            chunk_extra |-> next_extra, outgoing_receipts |-> outgoing,
                            log |-> next_log]
                      ELSE ImplicitTransitionsLoop(state_witness, params, k + 1,
                                                   next_extra, outgoing, next_log)

\* A replayer that derives the working chunk extra from the proposed chunk's
\* header.
ValidateChunkStateWitnessProposedHeader(state_witness, pre_validation_output) ==
    LET main_transition == pre_validation_output.main_transition_params
        chunk_header == state_witness.chunk_header
        applied == ApplyNewChunk(main_transition)
    IN  IF applied.result # Ok
        THEN [result |-> applied.result, chunk_extra |-> NewChunkExtra(0, 0, <<>>, 0, 0, 0),
              outgoing_receipts |-> <<>>, log |-> <<>>]
        ELSE LET outgoing == applied.apply_result.outgoing_receipts
                 chunk_extra == ApplyResultToChunkExtra(applied.apply_result, chunk_header)
                 log == <<[step |-> "main", block_hash |-> main_transition.block.block_hash,
                           chunk_extra |-> chunk_extra]>>
             IN  IF ~MainPostStateRootMatches(chunk_extra, state_witness)
                 THEN [result |-> InvalidChunkStateWitness("main post state root",
                                      main_transition.block.block_hash),
                       chunk_extra |-> chunk_extra, outgoing_receipts |-> outgoing,
                       log |-> log]
                 ELSE ImplicitTransitionsLoop(state_witness,
                          pre_validation_output.implicit_transition_params, 1,
                          chunk_extra, outgoing, log)

\* validate_chunk_state_witness
ValidateChunkStateWitness(state_witness, pre_validation_output) ==
    LET main_transition == pre_validation_output.main_transition_params
        chunk_header == main_transition.chunk_header
        applied == ApplyNewChunk(main_transition)
    IN  IF applied.result # Ok
        THEN [result |-> applied.result, chunk_extra |-> NewChunkExtra(0, 0, <<>>, 0, 0, 0),
              outgoing_receipts |-> <<>>, log |-> <<>>]
        ELSE LET outgoing == applied.apply_result.outgoing_receipts
                 chunk_extra == ApplyResultToChunkExtra(applied.apply_result, chunk_header)
                 log == <<[step |-> "main", block_hash |-> main_transition.block.block_hash,
                           chunk_extra |-> chunk_extra]>>
             IN  IF ~MainPostStateRootMatches(chunk_extra, state_witness)
                 THEN [result |-> InvalidChunkStateWitness("main post state root",
                                      main_transition.block.block_hash),
                       chunk_extra |-> chunk_extra, outgoing_receipts |-> outgoing,
                       log |-> log]
                 ELSE ImplicitTransitionsLoop(state_witness,
                          pre_validation_output.implicit_transition_params, 1,
                          chunk_extra, outgoing, log)

----------------------------------------------------------------------------
(* Validation scheduler and endorsement dispatcher:                          *)
(* ChunkValidator::start_validating_chunk and the task it spawns.            *)

NoReplay == [result |-> Err("NotRun", "", 0), chunk_extra |-> NewChunkExtra(0, 0, <<>>, 0, 0, 0),
             outgoing_receipts |-> <<>>, log |-> <<>>]

IdleTask == [state |-> "idle"]

\* A scheduler that does not look at the signer.
SignerUnchecked(my_signer) == TRUE

\* let Some(my_signer) = self.my_signer.as_ref() else { return Err(NotAValidator) }
HasSigner(my_signer) == my_signer # NoSigner

\* A scheduler that does not look at the chunk validators.
CommitteeUnchecked(my_signer, chunk_validators) == TRUE

\* chunk_validators.contains_key(my_signer.validator_id())
IsChunkValidator(my_signer, chunk_validators) == my_signer \in chunk_validators

\* A scheduler that replays on the caller's thread and returns the replay's
\* result.
StartValidatingChunkInline(node, state_witness) ==
    LET chunk_header == state_witness.chunk_header
        my_signer == MySigner(node)
        chunk_validators == GetChunkValidators(EpochId, chunk_header.shard_id,
                                               chunk_header.height_created)
        pre_validation_result == PreValidateChunkStateWitness(state_witness)
    IN  IF my_signer = NoSigner
        THEN [result |-> Err("NotAValidator", "", 0), trace |-> <<>>, spawned |-> FALSE]
        ELSE IF my_signer \notin chunk_validators
        THEN [result |-> Err("NotAChunkValidator", "", 0),
              trace |-> <<"get_epoch_id_from_prev_block", "get_chunk_validators">>,
              spawned |-> FALSE]
        ELSE IF pre_validation_result.result # Ok
        THEN [result |-> pre_validation_result.result,
              trace |-> <<"get_epoch_id_from_prev_block", "get_chunk_validators",
                          "pre_validate_chunk_state_witness">>,
              spawned |-> FALSE]
        ELSE LET replay == ValidateChunkStateWitness(state_witness, pre_validation_result)
             IN  [result |-> replay.result,
                  trace |-> <<"get_epoch_id_from_prev_block", "get_chunk_validators",
                              "pre_validate_chunk_state_witness", "get_block_producer",
                              "rayon::spawn">>,
                  spawned |-> TRUE,
                  task |-> [state |-> "spawned", node |-> node, signer |-> my_signer,
                            state_witness |-> state_witness,
                            pre_validation_result |-> pre_validation_result,
                            chunk_header |-> chunk_header,
                            block_producer |-> GetBlockProducer(EpochId,
                                                  chunk_header.height_created),
                            replay |-> replay]]

\* The synchronous part of start_validating_chunk: the result returned to the
\* caller, the collaborators consulted in order, and the task handed to
\* rayon::spawn when there is one.
StartValidatingChunk(node, state_witness) ==
    LET chunk_header == state_witness.chunk_header
        my_signer == MySigner(node)
        epoch == GetEpochIdFromPrevBlock(chunk_header.prev_block_hash)
        chunk_validators == GetChunkValidators(EpochId, chunk_header.shard_id,
                                               chunk_header.height_created)
        pre_validation_result == PreValidateChunkStateWitness(state_witness)
        block_producer == GetBlockProducer(EpochId, chunk_header.height_created)
    IN  IF ~HasSigner(my_signer)
        THEN [result |-> Err("NotAValidator", "", 0), trace |-> <<>>, spawned |-> FALSE]
        ELSE IF epoch.result # Ok
        THEN [result |-> epoch.result, trace |-> <<"get_epoch_id_from_prev_block">>,
              spawned |-> FALSE]
        ELSE IF ~IsChunkValidator(my_signer, chunk_validators)
        THEN [result |-> Err("NotAChunkValidator", "", 0),
              trace |-> <<"get_epoch_id_from_prev_block", "get_chunk_validators">>,
              spawned |-> FALSE]
        ELSE IF pre_validation_result.result # Ok
        THEN [result |-> pre_validation_result.result,
              trace |-> <<"get_epoch_id_from_prev_block", "get_chunk_validators",
                          "pre_validate_chunk_state_witness">>,
              spawned |-> FALSE]
        ELSE [result |-> Ok,
              trace |-> <<"get_epoch_id_from_prev_block", "get_chunk_validators",
                          "pre_validate_chunk_state_witness", "get_block_producer",
                          "rayon::spawn">>,
              spawned |-> TRUE,
              task |-> [state |-> "spawned", node |-> node, signer |-> my_signer,
                        state_witness |-> state_witness,
                        pre_validation_result |-> pre_validation_result,
                        chunk_header |-> chunk_header,
                        block_producer |-> block_producer,
                        replay |-> NoReplay]]

\* A closure that signs in the name of the block producer.
EndorsementOfBlockProducer(task) ==
    LET endorsement_to_sign == [chunk_hash |-> ChunkHash(task.chunk_header)]
    IN  [account_id |-> task.block_producer,
         signature |-> SignChunkEndorsement(task.signer, endorsement_to_sign),
         inner |-> endorsement_to_sign]

\* A closure that endorses the chunk of the main transition instead.
EndorsementOfLastChunk(task) ==
    LET endorsement_to_sign ==
            [chunk_hash |-> ChunkHash(task.pre_validation_result.main_transition_params.chunk_header)]
    IN  [account_id |-> task.signer,
         signature |-> SignChunkEndorsement(task.signer, endorsement_to_sign),
         inner |-> endorsement_to_sign]

\* What the spawned closure sends when the replay succeeds.
EndorsementOf(task) ==
    LET endorsement_to_sign == [chunk_hash |-> ChunkHash(task.chunk_header)]
    IN  [account_id |-> task.signer,
         signature |-> SignChunkEndorsement(task.signer, endorsement_to_sign),
         inner |-> endorsement_to_sign]

\* A closure that endorses whatever the replay returned.
SentRegardless(slot, task, replay) ==
    <<[target |-> task.block_producer,
       endorsement |-> [account_id |-> task.signer,
                        signature |-> SignChunkEndorsement(task.signer,
                                          [chunk_hash |-> ChunkHash(task.chunk_header)]),
                        inner |-> [chunk_hash |-> ChunkHash(task.chunk_header)]],
       slot |-> slot]>>

\* A closure that endorses when its own or any finished replay returned Ok.
SentIfAnyReplayOk(slot, task, replay) ==
    IF replay.result = Ok
          \/ \E other \in 1..MaxTasks :
                 tasks[other].state = "done" /\ tasks[other].replay.result = Ok
    THEN <<[target |-> task.block_producer,
            endorsement |-> [account_id |-> task.signer,
                             signature |-> SignChunkEndorsement(task.signer,
                                               [chunk_hash |-> ChunkHash(task.chunk_header)]),
                             inner |-> [chunk_hash |-> ChunkHash(task.chunk_header)]],
            slot |-> slot]>>
    ELSE <<>>

\* The closure's match on the replay result: the messages it sends.
SentAfterReplay(slot, task, replay) ==
    IF replay.result = Ok
    THEN <<[target |-> task.block_producer, endorsement |-> EndorsementOf(task), slot |-> slot]>>
    ELSE <<>>

----------------------------------------------------------------------------
(* The witnesses a node may be handed: the one a producer sent, or that one   *)
(* with a single field changed.                                               *)

SingleFieldPerturbations(w) ==
    {[w EXCEPT !.applied_receipts_hash = @ + 1]}
    \cup {[w EXCEPT !.main_state_transition.post_state_root = @ + 1]}
    \cup {[w EXCEPT !.implicit_transitions[k].post_state_root = @ + 1] :
             k \in 1..Len(w.implicit_transitions)}
    \cup {[w EXCEPT !.main_state_transition.base_state[i] = @ + 5000] :
             i \in 1..Len(w.main_state_transition.base_state)}
    \cup UNION {{[w EXCEPT !.implicit_transitions[k].base_state[i] = @ + 5000] :
                    i \in 1..Len(w.implicit_transitions[k].base_state)} :
                k \in 1..Len(w.implicit_transitions)}
    \cup {[w EXCEPT !.transactions = Append(@, 77)]}
    \cup {[w EXCEPT !.source_receipt_proofs = {[chunk_hash |-> 1, to_shard_id |-> ShardId]}]}
    \cup {[w EXCEPT !.chunk_header.prev_state_root = @ + 1]}
    \cup {[w EXCEPT !.chunk_header.prev_outgoing_receipts_root = @ + 1]}

Perturbations(w) ==
    {w}
    \cup SingleFieldPerturbations(w)
    \cup {[w EXCEPT !.applied_receipts_hash = @ + 1, !.transactions = Append(@, 77)]}

SentWitnesses == {last_send.sent[i].witness : i \in 1..Len(last_send.sent)}

\* The witness a peer that does not wait for the feature builds for the chunk the
\* producer just made, when the producer itself sent none because the feature is
\* disabled.
UnsolicitedWitnesses ==
    IF ~last_send.called \/ ChunkValidationEnabled(protocol_version) THEN {}
    ELSE LET prev_block_hash == last_send.prev_block_hash
             height == GetBlock(prev_block_hash).height + 1
             chunk == [header |-> ProduceChunkHeader(prev_block_hash, height),
                       transactions |-> TransactionsAt(height)]
             prev_chunk_header == ChunkOf(GetBlock(prev_block_hash), ShardId)
             prev_chunk == GetChunk(ChunkHash(prev_chunk_header))
             data == CollectStateTransitionData(state_transition_data, chunk.header,
                                                prev_chunk_header)
         IN  IF prev_chunk_header.prev_block_hash = DefaultHash THEN {}
             ELSE IF prev_chunk.result # Ok \/ data.result # Ok THEN {}
             ELSE {NewChunkStateWitness(chunk, prev_chunk, data)}

Candidates == UNION {Perturbations(w) : w \in SentWitnesses} \cup UnsolicitedWitnesses

\* A sent witness with its list of implicit transitions cut short or extended,
\* or with its chunk header naming another shard, another parent block or
\* another gas limit.
MalformedWitnesses(w) ==
    (IF w.implicit_transitions = <<>> THEN {}
     ELSE {[w EXCEPT !.implicit_transitions = SubSeq(@, 1, Len(@) - 1)]})
    \cup {[w EXCEPT !.implicit_transitions =
                        Append(@, [block_hash |-> w.chunk_header.prev_block_hash,
                                   base_state |-> <<>>,
                                   post_state_root |-> w.chunk_header.prev_state_root])]}
    \cup {[w EXCEPT !.chunk_header.shard_id = @ + 1]}
    \cup {[w EXCEPT !.chunk_header.prev_block_hash = b] : b \in 1..Len(blocks)}
    \cup {[w EXCEPT !.chunk_header.gas_limit = @ + 1]}

\* A witness with fields that name blocks or carry data for the proposed
\* chunk's own transactions changed: the block_hash of the main or of an
\* implicit transition, source_receipt_proofs, new_transactions,
\* new_transactions_validation_state, one at a time and all at once.
RelabelledWitnesses(w) ==
    LET others(b) == (1..Len(blocks)) \ {b}
        relabel(t, b) == [t EXCEPT !.block_hash = b]
        proofs == {[chunk_hash |-> 1, to_shard_id |-> ShardId]}
    IN  {[w EXCEPT !.main_state_transition.block_hash = b] :
            b \in others(w.main_state_transition.block_hash)}
        \cup UNION {{[w EXCEPT !.implicit_transitions[k].block_hash = b] :
                        b \in others(w.implicit_transitions[k].block_hash)} :
                    k \in 1..Len(w.implicit_transitions)}
        \cup {[w EXCEPT !.source_receipt_proofs = proofs]}
        \cup {[w EXCEPT !.new_transactions = Append(@, 77)]}
        \cup {[w EXCEPT !.new_transactions_validation_state = Append(@, 1)]}
        \cup {[w EXCEPT !.main_state_transition = relabel(@, b),
                        !.implicit_transitions =
                            [k \in 1..Len(@) |-> relabel(@[k], b)],
                        !.source_receipt_proofs = proofs,
                        !.new_transactions = Append(@, 77),
                        !.new_transactions_validation_state = Append(@, 1)] :
                 b \in others(w.main_state_transition.block_hash)}

MalformedCandidates ==
    UNION {MalformedWitnesses(w) \cup RelabelledWitnesses(w) : w \in SentWitnesses}

----------------------------------------------------------------------------
(* Actions of the validator. *)

NoCall == [called |-> FALSE, node |-> "n_none", result |-> Ok, trace |-> <<>>,
           spawned |-> FALSE, slot |-> 0]

\* A slot of the worker pool is free when no task waits in it and nothing its
\* last task sent is still in flight.
SlotFree(slot) ==
    /\ tasks[slot].state \in {"idle", "done"}
    /\ \A i \in 1..Len(endorsements) : endorsements[i].slot # slot

FreeSlots == {slot \in 1..MaxTasks : SlotFree(slot)}

\* Client::process_chunk_state_witness
ProcessChunkStateWitness(node, state_witness) ==
    /\ state_witness \in Candidates
    /\ ~last_call.called
    /\ FreeSlots # {}
    /\ LET out == StartValidatingChunk(node, state_witness)
           slot == CHOOSE s \in FreeSlots : \A t \in FreeSlots : s <= t
       IN  /\ last_call' = [called |-> TRUE, node |-> node, state_witness |-> state_witness,
                            result |-> out.result, trace |-> out.trace,
                            spawned |-> out.spawned,
                            slot |-> IF out.spawned THEN slot ELSE 0]
           /\ tasks' = IF out.spawned THEN [tasks EXCEPT ![slot] = out.task] ELSE tasks
    /\ UNCHANGED <<blocks, chunk_extras, outgoing_receipts, state_transition_data,
                   protocol_version, last_send, endorsements>>
    /\ UNCHANGED testVars

\* Client::process_chunk_state_witness on the node of the last call, for a
\* further witness that it accepts while its pool has an idle worker.
ProcessChunkStateWitnessAgain(state_witness) ==
    /\ last_call.called
    /\ last_call.spawned
    /\ state_witness \in Candidates
    /\ \E slot \in 1..MaxTasks : tasks[slot].state = "idle"
    /\ LET out == StartValidatingChunk(last_call.node, state_witness)
           slot == CHOOSE s \in 1..MaxTasks :
                       /\ tasks[s].state = "idle"
                       /\ \A t \in 1..MaxTasks : tasks[t].state = "idle" => s <= t
       IN  /\ out.spawned
           /\ tasks' = [tasks EXCEPT ![slot] = out.task]
    /\ UNCHANGED <<blocks, chunk_extras, outgoing_receipts, state_transition_data,
                   protocol_version, last_send, last_call, endorsements>>
    /\ UNCHANGED testVars

\* Client::process_chunk_state_witness for a witness a faulty peer made from the
\* one that was sent.
ProcessMalformedChunkStateWitness(node, state_witness) ==
    /\ state_witness \in MalformedCandidates
    /\ ~last_call.called
    /\ FreeSlots # {}
    /\ LET out == StartValidatingChunk(node, state_witness)
           slot == CHOOSE s \in FreeSlots : \A t \in FreeSlots : s <= t
       IN  /\ last_call' = [called |-> TRUE, node |-> node, state_witness |-> state_witness,
                            result |-> out.result, trace |-> out.trace,
                            spawned |-> out.spawned,
                            slot |-> IF out.spawned THEN slot ELSE 0]
           /\ tasks' = IF out.spawned THEN [tasks EXCEPT ![slot] = out.task] ELSE tasks
    /\ UNCHANGED <<blocks, chunk_extras, outgoing_receipts, state_transition_data,
                   protocol_version, last_send, endorsements>>
    /\ UNCHANGED testVars

\* The closure given to rayon::spawn runs to completion on a worker.
WorkerRun(slot) ==
    /\ tasks[slot].state = "spawned"
    /\ LET task == tasks[slot]
           replay == ValidateChunkStateWitness(task.state_witness, task.pre_validation_result)
       IN  /\ tasks' = [tasks EXCEPT ![slot] = [task EXCEPT !.state = "done",
                                                             !.replay = replay]]
           /\ endorsements' = endorsements \o SentAfterReplay(slot, task, replay)
    /\ UNCHANGED <<blocks, chunk_extras, outgoing_receipts, state_transition_data,
                   protocol_version, last_send, last_call>>
    /\ UNCHANGED testVars

\* Client::process_chunk_endorsement at the block producer: the endorsement is
\* taken from the network and dropped.
ProcessChunkEndorsement(i) ==
    /\ i \in 1..Len(endorsements)
    /\ endorsements' = [j \in 1..(Len(endorsements) - 1) |->
                           IF j < i THEN endorsements[j] ELSE endorsements[j + 1]]
    /\ UNCHANGED <<blocks, chunk_extras, outgoing_receipts, state_transition_data,
                   protocol_version, last_send, last_call, tasks>>
    /\ UNCHANGED testVars

----------------------------------------------------------------------------
(* The in-memory tries test                                                *)
(* (integration-tests/src/tests/client/features/in_memory_tries.rs).       *)
(*                                                                         *)
(* The test function is a sequential program: it builds a TestEnv of two   *)
(* clients, runs rounds of transfers and blocks, checks balances and the   *)
(* number of memtrie roots, and restarts the clients on the same stores    *)
(* with another memtrie configuration.  The clients, the runtime and the   *)
(* memtries are not part of the test file; they are modelled as the        *)
(* specification describes them.  A block of the TestEnv is its index in   *)
(* `env_blocks`; balances are counted in units of ONE_NEAR.                *)

\* `num_rounds` of a run (100 in the test).
NumRounds == 1
\* Transfers made in one round (50 in the test).
TxPerRound == 1
\* The extra rounds of a run, in which no transfer and no skip block is made.
ExtraRounds == 10
\* genesis_height of the test's GenesisConfig.
GenesisHeight == 10000
\* initial_balance of every account.
InitialBalance == 10000
\* The shard layout has three boundary accounts, so four shards.
NumShards == 4
\* The test builds a TestEnv three times on the same stores.
NumRuns == 3
\* The roots the test expects of a loaded shard.
ExpectedRoots == 4

Clients == {0, 1}
TestShards == 0..(NumShards - 1)
\* Two of the accounts "account<i>", named by i: one of shard 0, one of shard 1.
TestAccounts == {0, 3}

None == <<>>
Some(x) == <<x>>

\* ShardLayout::v1 with the boundary accounts account3, account5, account7.
ShardOfAccount(account) ==
    IF account < 3 THEN 0 ELSE IF account < 5 THEN 1 ELSE IF account < 7 THEN 2 ELSE 3

\* load_mem_tries_for_shards of the TrieConfig given to each client in each run.
LoadMemTriesForShards(r, client) ==
    CASE r = 1 /\ client = 1 -> {0, 2}
      [] r = 2 /\ client = 1 -> {0, 1}
      [] r = 3 /\ client = 0 -> {1, 3}
      [] OTHER -> {}

EnvGenesis == [prev |-> 0, height |-> GenesisHeight, seen |-> 0]

\* The transfers a round may draw.
Transfers == [sender : TestAccounts, receiver : TestAccounts]

SendMoneyDebitOnly(tracked, sender, receiver) ==
    [tracked EXCEPT ![sender] = @ - 1]

\* The two updates of the `balances` map after a transfer was accepted.
SendMoney(tracked, sender, receiver) ==
    LET debited == [tracked EXCEPT ![sender] = @ - 1]
    IN  [debited EXCEPT ![receiver] = @ + 1]

\* The inner loop of a round over its transfers.
RECURSIVE TrackTransfers(_, _)
TrackTransfers(tracked, txs) ==
    IF txs = <<>> THEN tracked
    ELSE TrackTransfers(SendMoney(tracked, Head(txs).sender, Head(txs).receiver), Tail(txs))

SkipBlockInAnyRound(cur_block_producer, next_block_producer, rnd, coin) ==
    cur_block_producer # next_block_producer /\ coin

\* The condition under which a round also produces a skip block.
SkipBlockProduced(cur_block_producer, next_block_producer, rnd, coin) ==
    cur_block_producer # next_block_producer /\ rnd < NumRounds /\ coin

\* The chunks of a block were produced on top of its previous block when that
\* block was processed, from the transfers the pool held then.
Included(bs, b) == IF bs[b].prev = 0 THEN 0 ELSE bs[bs[b].prev].seen

\* The receipts of a transfer are executed one block after the transfer.
Executed(bs, b) == IF bs[b].prev = 0 THEN 0 ELSE Included(bs, bs[b].prev)

\* The balance of an account in the state of a block.
BalanceAt(bs, txs, b, account) ==
    InitialBalance
      - Cardinality({i \in 1..Included(bs, b) : txs[i].sender = account})
      + Cardinality({i \in 1..Executed(bs, b) : txs[i].receiver = account})

\* Doomslug finality: a block is final once two blocks of consecutive heights
\* are built on it.
RECURSIVE LastFinal(_, _)
LastFinal(bs, b) ==
    IF bs[b].prev = 0 THEN b
    ELSE LET p1 == bs[b].prev
             p2 == bs[p1].prev
         IN  IF /\ p2 # 0
                /\ bs[p1].height = bs[b].height - 1
                /\ bs[p2].height = bs[p1].height - 1
             THEN p2
             ELSE LastFinal(bs, p1)

\* Memtrie roots are kept until and including the previous block of the last
\* final block.
GcStopHeight(bs, head) ==
    LET final == LastFinal(bs, head)
    IN  IF bs[final].prev = 0 THEN bs[final].height ELSE bs[bs[final].prev].height

\* The memtries of one client after a block was applied: every loaded shard
\* gets the root of the block, and roots below the stop height are dropped.
MemTriesAfter(bs, tries, head, b) ==
    [shard \in TestShards |->
        IF tries[shard] = None THEN None
        ELSE Some({r \in tries[shard][1] \cup {b} : bs[r].height >= GcStopHeight(bs, head)})]

\* Client::process_block_test of one client: a block whose previous block the
\* client has is accepted and reported; the head moves to the higher block.
ProcessBlockTest(bs, client, b) ==
    IF bs[b].prev \notin client.store
    THEN [head |-> client.head, store |-> client.store, tries |-> client.tries,
          result |-> <<>>]
    ELSE LET head == IF bs[b].height > bs[client.head].height THEN b ELSE client.head
         IN  [head |-> head, store |-> client.store \cup {b},
              tries |-> MemTriesAfter(bs, client.tries, head, b),
              result |-> <<b>>]

\* Loading the memtries of a client at start-up: the shards of the
\* configuration are loaded at the final block and brought up to the head.
LoadMemTries(bs, store, head, shards) ==
    [shard \in TestShards |->
        IF shard \in shards
        THEN Some({r \in store : bs[r].height >= bs[LastFinal(bs, head)].height})
        ELSE None]

\* TestEnv::query_balance at a client: the account is read from the state of
\* the client's head, through the memtrie when the account's shard is loaded.
NoBalance == 0 - 1
QueryBalance(bs, txs, head, tries, account) ==
    LET shard == ShardOfAccount(account)
    IN  IF tries[shard] # None /\ head \notin tries[shard][1]
        THEN NoBalance
        ELSE BalanceAt(bs, txs, head, account)

\* num_memtrie_roots of the test.
NumMemtrieRoots(tries, shard) ==
    IF tries[shard] = None THEN None ELSE Some(Cardinality(tries[shard][1]))

\* The assertions of the test function after each run.
RootsAsExpected(r, tries_of) ==
    \A client \in Clients, shard \in TestShards :
        NumMemtrieRoots(tries_of[client], shard) =
            IF shard \in LoadMemTriesForShards(r, client) THEN Some(ExpectedRoots) ELSE None

TestInit ==
    /\ env_blocks = <<EnvGenesis>>
    /\ env_txs = <<>>
    /\ heads = [client \in Clients |-> 1]
    /\ stores = [client \in Clients |-> {1}]
    /\ mem_tries = [client \in Clients |->
                       LoadMemTries(<<EnvGenesis>>, {1}, 1, LoadMemTriesForShards(1, client))]
    /\ balances = [account \in TestAccounts |-> InitialBalance]
    /\ run = 1
    /\ round = 0
    /\ phase = "running"
    /\ blocks_processed = <<>>

\* One round of run_chain_for_some_blocks_while_sending_money_around.
RunRound(transfers, coin) ==
    /\ phase = "running"
    /\ round < NumRounds + ExtraRounds
    /\ IF heads[0] # heads[1]
       THEN /\ phase' = "panic: heads"
            /\ UNCHANGED <<env_blocks, env_txs, heads, stores, mem_tries, balances, run,
                           round, blocks_processed>>
       ELSE LET tip == heads[0]
                txs == IF round < NumRounds THEN transfers ELSE <<>>
                submitted == env_txs \o txs
                cur_block_producer == GetBlockProducer(EpochId, env_blocks[tip].height + 1)
                next_block_producer == GetBlockProducer(EpochId, env_blocks[tip].height + 2)
                with_skip == SkipBlockProduced(cur_block_producer, next_block_producer,
                                               round, coin)
                block == Len(env_blocks) + 1
                skip_block == Len(env_blocks) + 2
                produced ==
                    <<[prev |-> tip, height |-> env_blocks[tip].height + 1,
                       seen |-> Len(submitted)]>>
                    \o (IF with_skip
                        THEN <<[prev |-> tip, height |-> env_blocks[tip].height + 2,
                                seen |-> Len(submitted)]>>
                        ELSE <<>>)
                bs == env_blocks \o produced
                before == [client \in Clients |->
                              [head |-> heads[client], store |-> stores[client],
                               tries |-> mem_tries[client]]]
                applied == [client \in Clients |-> ProcessBlockTest(bs, before[client], block)]
                skipped == [client \in Clients |->
                               IF with_skip
                               THEN ProcessBlockTest(bs, applied[client], skip_block)
                               ELSE applied[client]]
                results == [client \in Clients |->
                               <<applied[client].result>>
                               \o (IF with_skip THEN <<skipped[client].result>> ELSE <<>>)]
                expected == <<<<block>>>> \o (IF with_skip THEN <<<<skip_block>>>> ELSE <<>>)
            IN  /\ env_txs' = submitted
                /\ balances' = TrackTransfers(balances, txs)
                /\ env_blocks' = bs
                /\ heads' = [client \in Clients |-> skipped[client].head]
                /\ stores' = [client \in Clients |-> skipped[client].store]
                /\ mem_tries' = [client \in Clients |-> skipped[client].tries]
                /\ blocks_processed' = results
                /\ IF \A client \in Clients : results[client] = expected
                   THEN phase' = "running" /\ round' = round + 1
                   ELSE phase' = "panic: blocks_processed" /\ round' = round
                /\ UNCHANGED run
    /\ UNCHANGED coreVars

\* The end of a run: the balance check that closes
\* run_chain_for_some_blocks_while_sending_money_around, then the
\* num_memtrie_roots assertions of the test function.
CheckRun ==
    /\ phase = "running"
    /\ round = NumRounds + ExtraRounds
    /\ phase' =
           IF \E account \in TestAccounts :
                  QueryBalance(env_blocks, env_txs, heads[0], mem_tries[0], account)
                      # balances[account]
           THEN "panic: balance"
           ELSE IF ~RootsAsExpected(run, mem_tries)
           THEN "panic: roots"
           ELSE "checked"
    /\ UNCHANGED <<env_blocks, env_txs, heads, stores, mem_tries, balances, run, round,
                   blocks_processed>>
    /\ UNCHANGED coreVars

\* drop(env) and the next TestEnv built on the same stores.
Restart ==
    /\ phase = "checked"
    /\ run < NumRuns
    /\ run' = run + 1
    /\ round' = 0
    /\ phase' = "running"
    /\ mem_tries' = [client \in Clients |->
                        LoadMemTries(env_blocks, stores[client], heads[client],
                                     LoadMemTriesForShards(run + 1, client))]
    /\ blocks_processed' = <<>>
    /\ UNCHANGED <<env_blocks, env_txs, heads, stores, balances>>
    /\ UNCHANGED coreVars

----------------------------------------------------------------------------
(* Specifications. *)

Init ==
    /\ blocks = <<GenesisBlock>>
    /\ chunk_extras = <<GenesisChunkExtra>>
    /\ outgoing_receipts = <<<<>>>>
    /\ state_transition_data =
           <<[present |-> FALSE, base_state |-> <<>>, receipts_hash |-> DefaultHash]>>
    /\ protocol_version \in ProtocolVersions
    /\ last_send = NoSend
    /\ last_call = NoCall
    /\ tasks = [slot \in 1..MaxTasks |-> IdleTask]
    /\ endorsements = <<>>
    /\ TestInit

Next ==
    \/ \E parent \in 1..(MaxBlocks + 1), skip \in 0..MaxSkip, new_chunk \in BOOLEAN,
          evolves \in BOOLEAN : AddBlock(parent, skip, new_chunk, evolves)
    \/ \E prev_block_hash \in 1..(MaxBlocks + 1), lost \in SUBSET (1..(MaxBlocks + 1)) :
           ProduceChunkAndSendWitness(prev_block_hash, lost)
    \/ /\ ~last_call.called
       /\ \E node \in Nodes, state_witness \in Candidates :
              ProcessChunkStateWitness(node, state_witness)
    \/ \E slot \in 1..MaxTasks : WorkerRun(slot)
    \/ \E i \in 1..Len(endorsements) : ProcessChunkEndorsement(i)

Spec == Init /\ [][Next]_vars

\* The node of the last call may be handed further witnesses.
NextConcurrent ==
    \/ Next
    \/ /\ last_call.called
       /\ \E state_witness \in Candidates : ProcessChunkStateWitnessAgain(state_witness)

ConcurrentSpec == Init /\ [][NextConcurrent]_vars

\* The worker pool runs every task it was given.
FairSpec == Spec /\ \A slot \in 1..MaxTasks : WF_vars(WorkerRun(slot))

\* The node may also be handed a witness that no honest producer would build.
NextAdversary ==
    \/ Next
    \/ /\ ~last_call.called
       /\ \E node \in Nodes, state_witness \in MalformedCandidates :
              ProcessMalformedChunkStateWitness(node, state_witness)

AdversarySpec == Init /\ [][NextAdversary]_vars

\* The builder may also be called with a previous chunk header whose
\* height_included is not the height of the block that carries the chunk.
NextBuilder ==
    \/ Next
    \/ \E prev_block_hash \in 1..Len(blocks) :
           \E prev_chunk_header \in PrevChunkHeaders(prev_block_hash) :
               SendWitnessWithPrevChunk(prev_block_hash, prev_chunk_header)

BuilderSpec == Init /\ [][NextBuilder]_vars

\* The test function of in_memory_tries.rs, run from its first TestEnv.
TestNext ==
    \/ \E transfers \in [1..TxPerRound -> Transfers], coin \in BOOLEAN :
           RunRound(transfers, coin)
    \/ CheckRun
    \/ Restart

TestSpec == Init /\ [][TestNext]_vars

----------------------------------------------------------------------------
(* Properties. *)

\* The node has a signer and is a chunk validator of the witness's chunk.
Selected(node, w) ==
    /\ MySigner(node) # NoSigner
    /\ MySigner(node) \in GetChunkValidators(EpochId, w.chunk_header.shard_id,
                                             w.chunk_header.height_created)

\* The last call was handed a witness exactly as a producer sent it.
HonestCall == last_call.called /\ last_call.state_witness \in SentWitnesses

HonestSelectedCall == HonestCall /\ Selected(last_call.node, last_call.state_witness)

\* The endorsements in flight that the task of the last call sent.
EndorsementsOfLastCall ==
    {i \in 1..Len(endorsements) : last_call.spawned /\ endorsements[i].slot = last_call.slot}

NothingSpawnedOrSent ==
    /\ ~last_call.spawned
    /\ \A slot \in 1..MaxTasks : tasks[slot].state = "idle"
    /\ endorsements = <<>>

\* The block of the last new chunk before the proposed chunk and the receipts
\* and transactions the chain commits to for it, read off the chunk headers.
CommittedLastChunkBlock(w) == LastChunkBlockOf(w.chunk_header.prev_block_hash)

CommittedReceiptsHash(w) ==
    LET last == CommittedLastChunkBlock(w)
        last_last == LastChunkBlockOf(GetBlock(last).prev_hash)
    IN  HashReceipts(CollectReceiptsFromResponse(
            GetIncomingReceiptsForShard(blocks, ShardId, last, GetBlock(last_last).height)))

CommittedTxRoot(w) == ChunkOf(GetBlock(CommittedLastChunkBlock(w)), ShardId).tx_root

\* The ancestors of the proposed chunk's parent after the last new chunk, oldest first.
RECURSIVE AncestorsDownTo(_, _)
AncestorsDownTo(hash, stop) ==
    IF hash = stop \/ ~BlockKnown(hash) THEN <<>>
    ELSE Append(AncestorsDownTo(GetBlock(hash).prev_hash, stop), hash)

CommittedImplicitBlocks(w) ==
    AncestorsDownTo(w.chunk_header.prev_block_hash, CommittedLastChunkBlock(w))

\* C1: liveness of honest validation. When a node that has a signer and is a chunk
\* validator of the chunk is handed the witness a producer sent, the call returns
\* Ok with a task spawned, the task's run sends exactly one endorsement, whose
\* chunk hash is that of the witness's chunk header, and under fair scheduling of
\* the task that endorsement is eventually sent.
C1_HonestValidationLive ==
    /\ [](HonestSelectedCall => (last_call.result = Ok /\ last_call.spawned))
    /\ [][(HonestSelectedCall /\ last_call.spawned
             /\ tasks[last_call.slot].state = "spawned"
             /\ tasks'[last_call.slot].state = "done")
          => /\ Len(endorsements') = Len(endorsements) + 1
             /\ endorsements'[Len(endorsements')].slot = last_call.slot
             /\ endorsements'[Len(endorsements')].endorsement.inner.chunk_hash
                    = ChunkHash(last_call.state_witness.chunk_header)]_vars
    /\ [][Len(endorsements') > Len(endorsements)
          => /\ last_call.spawned
             /\ tasks[last_call.slot].state = "spawned"
             /\ tasks'[last_call.slot].state = "done"
             /\ Len(endorsements') = Len(endorsements) + 1]_vars
    /\ (HonestSelectedCall
          ~> (HonestSelectedCall /\ last_call.spawned
                /\ tasks[last_call.slot].state = "done"
                /\ tasks[last_call.slot].replay.result = Ok))

C1_Witness ==
    /\ HonestSelectedCall
    /\ Len(last_call.state_witness.implicit_transitions) >= 1
    /\ EndorsementsOfLastCall # {}
    /\ \A i \in EndorsementsOfLastCall :
           endorsements[i].endorsement.inner.chunk_hash
               = ChunkHash(last_call.state_witness.chunk_header)

\* C2: round trip. Every witness a producer sent passes pre-validation and the
\* replay on a node with the same chain history: the producer's main block is the
\* block of the validator's main transition, the implicit transitions pair one to
\* one and in the same order with the validator's implicit blocks, and no error
\* is raised.
C2_RoundTrip ==
    \A w \in SentWitnesses :
        LET pre == PreValidateChunkStateWitness(w)
        IN  /\ pre.result = Ok
            /\ pre.main_transition_params.block.block_hash = w.main_state_transition.block_hash
            /\ w.main_state_transition.block_hash = CommittedLastChunkBlock(w)
            /\ Len(pre.implicit_transition_params) = Len(w.implicit_transitions)
            /\ \A i \in 1..Len(w.implicit_transitions) :
                   /\ pre.implicit_transition_params[i].block_hash
                          = w.implicit_transitions[i].block_hash
                   /\ w.implicit_transitions[i].block_hash = CommittedImplicitBlocks(w)[i]
            /\ ValidateChunkStateWitness(w, pre).result = Ok

C2_Witness ==
    \E w \in SentWitnesses :
        /\ Len(w.implicit_transitions) = 2
        /\ GetBlock(w.chunk_header.prev_block_hash).height
               > GetBlock(w.main_state_transition.block_hash).height + 2
        /\ \E i \in 1..2 : StateEvolvesAt(w.implicit_transitions[i].block_hash)
        /\ ValidateChunkStateWitness(w, PreValidateChunkStateWitness(w)).result = Ok

\* C3: endorsement safety. An endorsement in flight was sent by a task whose
\* replay ended Ok after the main check, every implicit check and the final
\* check: the final chunk extra's state root is the proposed header's
\* prev_state_root and the root of the computed outgoing receipts is the one the
\* header commits to.
C3_EndorsementSafety ==
    \A i \in 1..Len(endorsements) :
        LET task == tasks[endorsements[i].slot]
            w == task.state_witness
            replay == task.replay
            log == replay.log
        IN  /\ task.state = "done"
            /\ replay.result = Ok
            /\ replay.chunk_extra.state_root = w.chunk_header.prev_state_root
            /\ Merklize(BuildReceiptsHashes(replay.outgoing_receipts))
                   = w.chunk_header.prev_outgoing_receipts_root
            /\ Len(log) >= 2
            /\ log[1].step = "main"
            /\ log[1].chunk_extra.state_root = w.main_state_transition.post_state_root
            /\ \A j \in 2..(Len(log) - 1) :
                   /\ log[j].step = "implicit"
                   /\ log[j].chunk_extra.state_root
                          = w.implicit_transitions[j - 1].post_state_root
            /\ log[Len(log)].step = "final"
            /\ log[Len(log)].chunk_extra = replay.chunk_extra

C3_Witness ==
    \E i \in 1..Len(endorsements) :
        Len(tasks[endorsements[i].slot].replay.log) >= 4
\* The fields in which a witness differs from the one the producer sent.
ChangedFields(w0, w) ==
    {f \in {"chunk_header", "applied_receipts_hash", "post_state_root", "base_state",
            "transactions", "source_receipt_proofs"} :
        \/ f = "chunk_header" /\ w.chunk_header # w0.chunk_header
        \/ f = "applied_receipts_hash" /\ w.applied_receipts_hash # w0.applied_receipts_hash
        \/ f = "post_state_root"
             /\ \/ w.main_state_transition.post_state_root
                       # w0.main_state_transition.post_state_root
                \/ \E k \in 1..Len(w0.implicit_transitions) :
                       w.implicit_transitions[k].post_state_root
                           # w0.implicit_transitions[k].post_state_root
        \/ f = "base_state"
             /\ \/ w.main_state_transition.base_state # w0.main_state_transition.base_state
                \/ \E k \in 1..Len(w0.implicit_transitions) :
                       w.implicit_transitions[k].base_state
                           # w0.implicit_transitions[k].base_state
        \/ f = "transactions" /\ Merklize(w.transactions) # Merklize(w0.transactions)
        \/ f = "source_receipt_proofs"
             /\ w.source_receipt_proofs # w0.source_receipt_proofs}

\* The last call was handed, on a selected node, a sent witness with exactly one
\* field changed, the field being one of `fields`.
PerturbedCall(fields) ==
    /\ last_call.called
    /\ Selected(last_call.node, last_call.state_witness)
    /\ \E w0 \in SentWitnesses :
           /\ Cardinality(ChangedFields(w0, last_call.state_witness)) = 1
           /\ ChangedFields(w0, last_call.state_witness) \subseteq fields

\* The last call was refused with an invalid-witness error, at once or by its
\* task, and nothing was sent for it.
RejectedAsInvalid ==
    /\ endorsements = <<>>
    /\ IF last_call.spawned
       THEN tasks[last_call.slot].state = "done"
                => tasks[last_call.slot].replay.result.kind = "InvalidChunkStateWitness"
       ELSE last_call.result.kind = "InvalidChunkStateWitness"

\* C4 as stated: a change of exactly one of applied_receipts_hash, a
\* post_state_root, a base_state node, transactions or source_receipt_proofs of a
\* witness that validates is rejected as invalid and no endorsement is sent.
C4_AnyListedPerturbationRejected ==
    PerturbedCall({"applied_receipts_hash", "post_state_root", "base_state",
                   "transactions", "source_receipt_proofs"})
        => RejectedAsInvalid

\* C4, amended: perturbation rejection. A change of exactly one of
\* applied_receipts_hash, a post_state_root (main or implicit), a base_state node
\* or transactions of a witness that validates is rejected as invalid and no
\* endorsement is sent; source_receipt_proofs is not read by validation.
C4_PerturbationRejected ==
    PerturbedCall({"applied_receipts_hash", "post_state_root", "base_state", "transactions"})
        => RejectedAsInvalid

C4_Witness ==
    /\ PerturbedCall({"base_state"})
    /\ last_call.spawned
    /\ tasks[last_call.slot].state = "done"
    /\ tasks[last_call.slot].replay.result.kind = "InvalidChunkStateWitness"
    /\ endorsements = <<>>

\* C5: committee gate. When the node has a signer that is not among the chunk
\* validators of the witness's chunk, the call returns NotAChunkValidator,
\* pre-validation is not run, no task is spawned and no endorsement is sent.
C5_CommitteeGate ==
    (/\ last_call.called
     /\ MySigner(last_call.node) # NoSigner
     /\ MySigner(last_call.node)
            \notin GetChunkValidators(EpochId, last_call.state_witness.chunk_header.shard_id,
                                      last_call.state_witness.chunk_header.height_created))
        => /\ last_call.result = Err("NotAChunkValidator", "", 0)
           /\ \A i \in 1..Len(last_call.trace) :
                  last_call.trace[i] \notin {"pre_validate_chunk_state_witness", "rayon::spawn"}
           /\ NothingSpawnedOrSent

C5_Witness ==
    /\ HonestCall
    /\ GetChunkValidators(EpochId, ShardId, last_call.state_witness.chunk_header.height_created) # {}
    /\ MySigner(last_call.node) # NoSigner
    /\ ~Selected(last_call.node, last_call.state_witness)
    /\ last_call.result.kind = "NotAChunkValidator"

\* C6: signer gate. When the node has no signer, the call returns NotAValidator
\* for every witness, before any collaborator is consulted, no task is spawned
\* and nothing is sent.
C6_SignerGate ==
    (last_call.called /\ MySigner(last_call.node) = NoSigner)
        => /\ last_call.result = Err("NotAValidator", "", 0)
           /\ last_call.trace = <<>>
           /\ NothingSpawnedOrSent

C6_Witness ==
    /\ HonestCall
    /\ MySigner(last_call.node) = NoSigner
    /\ last_call.result.kind = "NotAValidator"

\* C7: receipts-hash check. When a selected node is handed a witness whose
\* applied_receipts_hash differs from the hash of the incoming receipts the chain
\* holds for the window ending at the last chunk block, the call returns
\* InvalidWitness (receipts hash) synchronously, no task is spawned and no
\* endorsement is sent.
C7_ReceiptsHashCheck ==
    (/\ last_call.called
     /\ Selected(last_call.node, last_call.state_witness)
     /\ last_call.state_witness.applied_receipts_hash
            # CommittedReceiptsHash(last_call.state_witness))
        => /\ last_call.result = InvalidChunkStateWitness("receipts hash", 0)
           /\ NothingSpawnedOrSent

C7_Witness ==
    /\ PerturbedCall({"applied_receipts_hash"})
    /\ last_call.result = InvalidChunkStateWitness("receipts hash", 0)
    /\ ~last_call.spawned

\* C8: transaction-root check. When a selected node is handed a witness whose
\* receipts hash matches and whose transactions' Merkle root differs from the
\* tx_root of the shard's chunk in the last chunk block, the call returns
\* InvalidWitness (transaction root) and no task is spawned; a witness failing
\* both checks gets the receipts-hash error.
C8_TxRootCheck ==
    (/\ last_call.called
     /\ Selected(last_call.node, last_call.state_witness)
     /\ Merklize(last_call.state_witness.transactions)
            # CommittedTxRoot(last_call.state_witness))
        => /\ NothingSpawnedOrSent
           /\ last_call.result =
                  IF last_call.state_witness.applied_receipts_hash
                         = CommittedReceiptsHash(last_call.state_witness)
                  THEN InvalidChunkStateWitness("transaction root", 0)
                  ELSE InvalidChunkStateWitness("receipts hash", 0)

C8_Witness ==
    /\ PerturbedCall({"transactions"})
    /\ last_call.result = InvalidChunkStateWitness("transaction root", 0)
    /\ ~last_call.spawned

\* The implicit transition, if any, whose post_state_root alone was changed in
\* the witness of the last call.
WrongImplicitRoots ==
    {k \in 1..Len(last_call.state_witness.implicit_transitions) :
        \E w0 \in SentWitnesses :
            last_call.state_witness
                = [w0 EXCEPT !.implicit_transitions[k].post_state_root = @ + 1]}

\* C9: intermediate-root abort. When only the post_state_root of implicit
\* transition k is wrong, the replay applies the main transition and the implicit
\* transitions up to k in order, fails at k with InvalidWitness naming the block
\* of transition k, applies nothing after k, does not reach the final check and
\* sends no endorsement.
C9_IntermediateRootAbort ==
    \A k \in (IF last_call.called /\ Selected(last_call.node, last_call.state_witness)
              THEN WrongImplicitRoots ELSE {}) :
        LET w == last_call.state_witness
        IN  /\ last_call.spawned
            /\ endorsements = <<>>
            /\ tasks[last_call.slot].state = "done" =>
                   LET replay == tasks[last_call.slot].replay
                   IN  /\ replay.result = InvalidChunkStateWitness(
                              "implicit post state root", w.implicit_transitions[k].block_hash)
                       /\ Len(replay.log) = k + 1
                       /\ replay.log[1].step = "main"
                       /\ replay.log[1].block_hash = w.main_state_transition.block_hash
                       /\ \A j \in 1..k :
                              /\ replay.log[j + 1].step = "implicit"
                              /\ replay.log[j + 1].block_hash
                                     = w.implicit_transitions[j].block_hash

C9_Witness ==
    /\ last_call.called
    /\ Selected(last_call.node, last_call.state_witness)
    /\ 1 \in WrongImplicitRoots
    /\ Len(last_call.state_witness.implicit_transitions) = 2
    /\ tasks[last_call.slot].state = "done"
    /\ Len(tasks[last_call.slot].replay.log) = 2

\* The chunk the blocks carry at the head the producer built on.
PrevChunkHeaderOfSend == ChunkOf(GetBlock(last_send.prev_block_hash), ShardId)

\* The blocks whose rows the witness for the producer's chunk needs: the block of
\* the last new chunk and the blocks after it up to the head, oldest first.
WindowOfSend ==
    <<LastChunkBlockOf(last_send.prev_block_hash)>>
        \o AncestorsDownTo(last_send.prev_block_hash,
                           LastChunkBlockOf(last_send.prev_block_hash))

\* C11: genesis boundary. When the previous chunk is the genesis chunk (its
\* prev_block_hash is the zero hash) the builder returns Ok, reads no chunk and
\* no state transition data, sends no witness, and no validation or endorsement
\* follows.
C11_GenesisBoundary ==
    (last_send.called /\ PrevChunkHeaderOfSend.prev_block_hash = DefaultHash)
        => /\ last_send.result = Ok
           /\ last_send.sent = <<>>
           /\ \A i \in 1..Len(last_send.trace) :
                  last_send.trace[i] \notin {"get_chunk", "collect_state_transition_data",
                                             "network_adapter.send"}
           /\ ~last_call.called
           /\ NothingSpawnedOrSent

C11_Witness ==
    /\ last_send.called
    /\ protocol_version >= ChunkValidationVersion
    /\ PrevChunkHeaderOfSend.prev_block_hash = DefaultHash
    /\ GetBlock(last_send.prev_block_hash).height >= 2
    /\ last_send.result = Ok
    /\ last_send.sent = <<>>

\* C12: feature gate. While the protocol version of the epoch is below the
\* version of the ChunkValidation feature, the builder returns Ok without sending
\* a witness, and a node handed a witness spawns no task and sends no
\* endorsement.
C12_FeatureGate ==
    protocol_version < ChunkValidationVersion
        => /\ last_send.called
                 => /\ last_send.result = Ok
                    /\ last_send.sent = <<>>
                    /\ last_send.trace = <<"get_epoch_protocol_version">>
           /\ last_call.called
                 => /\ last_call.result.kind \in {"NotAValidator", "NotAChunkValidator"}
                    /\ \A i \in 1..Len(last_call.trace) :
                           last_call.trace[i] \notin {"pre_validate_chunk_state_witness",
                                                      "rayon::spawn"}
           /\ NothingSpawnedOrSent

C12_Witness ==
    /\ protocol_version < ChunkValidationVersion
    /\ last_send.called
    /\ Len(WindowOfSend) >= 2
    /\ last_call.called
    /\ MySigner(last_call.node) # NoSigner
    /\ last_call.result.kind = "NotAChunkValidator"

C14_EndorsementContent ==
    \A i \in 1..Len(endorsements) :
        LET task == tasks[endorsements[i].slot]
            w == task.state_witness
            endorsement == endorsements[i].endorsement
        IN  /\ endorsement.account_id = MySigner(task.node)
            /\ endorsement.account_id # NoSigner
            /\ endorsement.inner.chunk_hash = ChunkHash(w.chunk_header)
            /\ endorsement.inner.chunk_hash
                   # ChunkHash(ChunkOf(GetBlock(w.main_state_transition.block_hash), ShardId))
            /\ endorsements[i].target
                   = GetBlockProducer(EpochId, w.chunk_header.height_created)

C14_Witness ==
    \E i \in 1..Len(endorsements) :
        /\ endorsements[i].target # endorsements[i].endorsement.account_id
        /\ endorsements[i].endorsement.account_id = MySigner(last_call.node)
        /\ Len(last_call.state_witness.implicit_transitions) >= 1

\* The runtime transitions a task has applied.
LogOf(task) == IF task.state = "idle" THEN <<>> ELSE task.replay.log

ValidatedAlone(w) ==
    ValidateChunkStateWitness(w, PreValidateChunkStateWitness(w)).result

\* What a task sends when its witness validates on its own.
SentAlone(slot, task) ==
    IF ValidatedAlone(task.state_witness) = Ok
    THEN <<[target |-> GetBlockProducer(EpochId, task.state_witness.chunk_header.height_created),
            endorsement |->
                [account_id |-> MySigner(task.node),
                 signature |-> SignChunkEndorsement(MySigner(task.node),
                                   [chunk_hash |-> ChunkHash(task.state_witness.chunk_header)]),
                 inner |-> [chunk_hash |-> ChunkHash(task.state_witness.chunk_header)]],
            slot |-> slot]>>
    ELSE <<>>

\* C17: independence of concurrent replays. With several accepted witnesses and
\* their tasks run in any order, the step that completes a task gives it the
\* result its witness has on its own, sends exactly what that task sends on its
\* own and leaves every other task as it is; nothing else sends an endorsement.
C17_ConcurrentIndependence ==
    /\ [][\A slot \in 1..MaxTasks :
              (tasks[slot].state = "spawned" /\ tasks'[slot].state = "done")
                  => /\ tasks'[slot].replay.result = ValidatedAlone(tasks[slot].state_witness)
                     /\ endorsements' = endorsements \o SentAlone(slot, tasks[slot])
                     /\ \A other \in 1..MaxTasks :
                            other # slot => tasks'[other] = tasks[other]]_vars
    /\ [][Len(endorsements') > Len(endorsements)
              => \E slot \in 1..MaxTasks :
                     tasks[slot].state = "spawned" /\ tasks'[slot].state = "done"]_vars

C17_Witness ==
    /\ tasks[1].state = "done"
    /\ tasks[2].state = "done"
    /\ tasks[1].replay.result = Ok
    /\ tasks[2].replay.result.kind = "InvalidChunkStateWitness"
    /\ Len(endorsements) = 1
    /\ endorsements[1].slot = 1

\* The blocks reached from `hash` through prev_hash links, `hash` included.
AncestorsOf(hash) == Range(AncestorsDownTo(hash, DefaultHash))

\* C18: fork isolation. Every block the walk of pre-validation places in
\* blocks_after_last_chunk or blocks_after_last_last_chunk is an ancestor of the
\* witness's prev_block_hash; a task replays only blocks of that branch, and when
\* its replay returns Ok the state root it reached is the one the store holds
\* for the head of that branch.
C18_ForkIsolation ==
    last_call.called
        => LET w == last_call.state_witness
               branch == AncestorsOf(w.chunk_header.prev_block_hash)
               walk == WalkBack(ShardId, w.chunk_header.prev_block_hash, 0, <<>>, <<>>)
           IN  /\ walk.result = Ok
                     => /\ Range(walk.blocks_after_last_chunk) \subseteq branch
                        /\ Range(walk.blocks_after_last_last_chunk) \subseteq branch
               /\ last_call.spawned
                     => LET task == tasks[last_call.slot]
                            pre == task.pre_validation_result
                        IN  /\ pre.main_transition_params.block.block_hash \in branch
                            /\ \A i \in 1..Len(pre.implicit_transition_params) :
                                   pre.implicit_transition_params[i].block_hash \in branch
                            /\ task.state = "done"
                                  => /\ \A j \in 1..Len(task.replay.log) :
                                            task.replay.log[j].step # "final"
                                                => task.replay.log[j].block_hash \in branch
                                     /\ task.replay.result = Ok
                                            => task.replay.chunk_extra.state_root
                                                   = chunk_extras[w.chunk_header.prev_block_hash]
                                                         .state_root

C18_Witness ==
    /\ last_call.called
    /\ last_call.spawned
    /\ tasks[last_call.slot].state = "done"
    /\ tasks[last_call.slot].replay.result = Ok
    /\ \E other \in 1..Len(blocks) :
           /\ IsHead(other)
           /\ other \notin AncestorsOf(last_call.state_witness.chunk_header.prev_block_hash)
           /\ other < last_call.state_witness.chunk_header.prev_block_hash
           /\ GetBlock(other).height
                  = GetBlock(last_call.state_witness.chunk_header.prev_block_hash).height - 1
           /\ chunk_extras[other].state_root
                  # chunk_extras[last_call.state_witness.chunk_header.prev_block_hash].state_root

----------------------------------------------------------------------------
(* Properties of the in-memory tries test. *)

\* The blocks of the TestEnv that are on the chain of a block.
RECURSIVE EnvChainOf(_, _)
EnvChainOf(bs, b) == IF b = 0 THEN {} ELSE {b} \cup EnvChainOf(bs, bs[b].prev)

\* The blocks the last round produced, in the order they were applied.
LastProduced ==
    [i \in 1..Len(blocks_processed[0]) |->
        <<Len(env_blocks) - Len(blocks_processed[0]) + i>>]

\* C19: cross-node consistency under any shard-loading configuration.  In
\* every run of the test, whichever shards each client loads into memory: at
\* the start of each round both clients have the same head; every block
\* applied in a round is reported by each client as exactly that block; and
\* when the run is over every account's queried balance, at either client,
\* equals the balance the test tracked from the transfers it submitted.  No
\* assertion on heads, processed blocks or balances fails, across restarts.
C19_CrossNodeConsistency ==
    /\ phase \notin {"panic: heads", "panic: blocks_processed", "panic: balance"}
    /\ phase = "running" => heads[0] = heads[1]
    /\ blocks_processed # <<>> =>
           \A client \in Clients : blocks_processed[client] = LastProduced
    /\ phase = "checked" =>
           \A client \in Clients, account \in TestAccounts :
               QueryBalance(env_blocks, env_txs, heads[client], mem_tries[client], account)
                   = balances[account]

\* The third run is over, after a restart that changed which client loads
\* which shards; a skip block left a fork behind, money moved between the
\* shards, and the accounts were read both through a memtrie and without one.
C19_Witness ==
    /\ phase = "checked"
    /\ run = NumRuns
    /\ \E b \in 1..Len(env_blocks) : b \notin EnvChainOf(env_blocks, heads[0])
    /\ \E account \in TestAccounts : balances[account] # InitialBalance
    /\ \E account \in TestAccounts :
           /\ mem_tries[0][ShardOfAccount(account)] # None
           /\ mem_tries[1][ShardOfAccount(account)] = None

\* The head of a client and its three ancestors.
RECURSIVE LastBlocksOf(_, _, _)
LastBlocksOf(bs, b, n) ==
    IF b = 0 \/ n = 0 THEN {} ELSE {b} \cup LastBlocksOf(bs, bs[b].prev, n - 1)

----------------------------------------------------------------------------
(* Properties of the backward walk and of the replay, for any witness a    *)
(* node is handed.                                                         *)

\* The last call ran pre-validation.
PreValidationRan ==
    /\ last_call.called
    /\ \E i \in 1..Len(last_call.trace) :
           last_call.trace[i] = "pre_validate_chunk_state_witness"

\* The backward walk of the last call.
WalkOfLastCall ==
    WalkBack(last_call.state_witness.chunk_header.shard_id,
             last_call.state_witness.chunk_header.prev_block_hash, 0, <<>>, <<>>)

\* The chunk a block carries for the shard is the last new chunk at that block;
\* a chunk stands on the chain at the block it was built on, its
\* prev_block_hash.
LastNewChunkAt(hash) == ChunkOf(GetBlock(hash), ShardId)

C22_OutputShape ==
    (PreValidationRan /\ WalkOfLastCall.result = Ok) =>
        LET w == last_call.state_witness
            parent == w.chunk_header.prev_block_hash
            after_last == WalkOfLastCall.blocks_after_last_chunk
            after_last_last == WalkOfLastCall.blocks_after_last_last_chunk
            last_chunk_block == after_last[Len(after_last)]
            implicit_transition_blocks == SubSeq(after_last, 1, Len(after_last) - 1)
            pre == PreValidateChunkStateWitness(w)
        IN  /\ after_last # <<>>
            /\ after_last_last # <<>>
            /\ IsNewChunk(GetBlock(last_chunk_block), ShardId)
            /\ Reverse(implicit_transition_blocks) = AncestorsDownTo(parent, last_chunk_block)
            /\ \A i \in 1..Len(implicit_transition_blocks) :
                   ~IsNewChunk(GetBlock(implicit_transition_blocks[i]), ShardId)
            /\ IsNewChunk(GetBlock(parent), ShardId) => implicit_transition_blocks = <<>>
            /\ last_call.spawned = (pre.result = Ok)
            /\ (last_call.spawned /\ tasks[last_call.slot].state # "idle") =>
                   tasks[last_call.slot].pre_validation_result = pre
            /\ pre.result = Ok =>
                   /\ pre.main_transition_params.block.block_hash = last_chunk_block
                   /\ pre.main_transition_params.block.is_new_chunk
                   /\ Len(pre.implicit_transition_params) = Len(implicit_transition_blocks)
                   /\ \A i \in 1..Len(pre.implicit_transition_params) :
                          LET block == pre.implicit_transition_params[i]
                          IN  /\ block.block_hash = Reverse(implicit_transition_blocks)[i]
                              /\ ~block.is_new_chunk
                              /\ block.height > GetBlock(last_chunk_block).height
                              /\ i > 1 => block.prev_block_hash
                                             = pre.implicit_transition_params[i - 1].block_hash
                   /\ IsNewChunk(GetBlock(parent), ShardId) =>
                          pre.implicit_transition_params = <<>>

\* Pre-validation returned two block contexts, the older one first, to the
\* task it spawned.
C22_Witness ==
    /\ PreValidationRan
    /\ last_call.spawned
    /\ tasks[last_call.slot].state = "spawned"
    /\ Len(tasks[last_call.slot].pre_validation_result.implicit_transition_params) = 2
    /\ tasks[last_call.slot].pre_validation_result.implicit_transition_params[1].height
           < tasks[last_call.slot].pre_validation_result.implicit_transition_params[2].height

\* C23: implicit-transition count. Every witness whose validation succeeds (an
\* endorsement is sent for it) declares as many implicit transitions as there
\* are blocks without a new chunk after the last new chunk up to and including
\* the parent of chunk_header; a witness that declares fewer or more is not
\* accepted.
C23_ImplicitTransitionCount ==
    \A i \in 1..Len(endorsements) :
        LET w == tasks[endorsements[i].slot].state_witness
        IN  Len(w.implicit_transitions) = Len(CommittedImplicitBlocks(w))

\* The first block the walk from `hash` reads that has no chunk for the shard,
\* `seen` new chunks having been met before; 0 when it reads none.
RECURSIVE FirstVisitedWithoutShard(_, _, _)
FirstVisitedWithoutShard(shard_id, hash, seen) ==
    IF seen = 2 \/ ~BlockKnown(hash) THEN 0
    ELSE IF ~HasShard(GetBlock(hash), shard_id) THEN hash
    ELSE FirstVisitedWithoutShard(shard_id, GetBlock(hash).prev_hash,
             IF IsNewChunk(GetBlock(hash), shard_id) THEN seen + 1 ELSE seen)

DoneTasks == {slot \in 1..MaxTasks : tasks[slot].state = "done"}

\* C25: replay order. Within one replay the main transition (apply_new_chunk on
\* last_chunk_block) is applied before any implicit transition, and the
\* implicit transitions are applied one at a time in strictly increasing block
\* order: the k-th one is that of the k-th implicit block, starts from the
\* chunk extra the previous step produced, and uses the base_state of the
\* witness's k-th implicit transition as its only storage, so that it fails
\* when that base_state lacks a node it reads.
C25_ReplayOrder ==
    \A slot \in DoneTasks :
        LET task == tasks[slot]
            w == task.state_witness
            pre == task.pre_validation_result
            params == pre.implicit_transition_params
            log == task.replay.log
            steps == {j \in 1..Len(log) : log[j].step = "implicit"}
            data(k) == [prev_chunk_extra |-> log[k].chunk_extra, block |-> params[k],
                        storage |-> w.implicit_transitions[k].base_state]
        IN  /\ log # <<>> =>
                   /\ log[1].step = "main"
                   /\ log[1].block_hash = pre.main_transition_params.block.block_hash
                   /\ ApplyNewChunk(pre.main_transition_params).result = Ok
            /\ log = <<>> => ApplyNewChunk(pre.main_transition_params).result # Ok
            /\ \A j \in 2..Len(log) : log[j].step = "main" => FALSE
            /\ steps \subseteq 2..(Len(params) + 1)
            /\ \A j \in steps :
                   /\ \A i \in 2..j : i \in steps
                   /\ j - 1 <= Len(w.implicit_transitions)
                   /\ log[j].block_hash = params[j - 1].block_hash
                   /\ params[j - 1].height > pre.main_transition_params.block.height
                   /\ j > 2 => params[j - 1].height > params[j - 2].height
                   /\ ApplyOldChunk(data(j - 1)).result = Ok
                   /\ log[j].chunk_extra =
                          [log[j - 1].chunk_extra EXCEPT
                              !.state_root = ApplyOldChunk(data(j - 1)).apply_result.new_root]
            /\ task.replay.result.reason = "missing trie node" /\ log # <<>> =>
                   LET k == Len(log)
                   IN  /\ task.replay.result.at = params[k].block_hash
                       /\ ~(NeededNodes(log[k].chunk_extra.state_root)
                              \subseteq Range(w.implicit_transitions[k].base_state))

\* A replay that applied the main transition and then two implicit
\* transitions that both change the state root.
C25_Witness ==
    \E slot \in DoneTasks :
        LET log == tasks[slot].replay.log
        IN  /\ Len(log) = 4
            /\ log[2].step = "implicit" /\ log[3].step = "implicit"
            /\ log[1].chunk_extra.state_root # log[2].chunk_extra.state_root
            /\ log[2].chunk_extra.state_root # log[3].chunk_extra.state_root
            /\ tasks[slot].replay.result = Ok

\* C26: frame of an implicit transition. An implicit transition changes only
\* chunk_extra.state_root: outcome_root, validator_proposals, gas used,
\* gas_limit and balance burnt of the working chunk extra, and the outgoing
\* receipts that go into the final receipts-root check, stay those the main
\* transition produced.
C26_ImplicitTransitionFrame ==
    \A slot \in DoneTasks :
        LET task == tasks[slot]
            log == task.replay.log
            main == ApplyNewChunk(task.pre_validation_result.main_transition_params)
        IN  log # <<>> =>
                /\ \A j \in 1..Len(log) :
                       [log[j].chunk_extra EXCEPT !.state_root = log[1].chunk_extra.state_root]
                           = log[1].chunk_extra
                /\ [task.replay.chunk_extra EXCEPT !.state_root = log[1].chunk_extra.state_root]
                       = log[1].chunk_extra
                /\ task.replay.outgoing_receipts = main.apply_result.outgoing_receipts
                /\ log[Len(log)].step = "final" =>
                       task.replay.result = FinalCheck(task.state_witness,
                                                       log[Len(log)].chunk_extra,
                                                       main.apply_result.outgoing_receipts)

\* A replay whose main transition burnt gas and sent receipts, followed by an
\* implicit transition that changed the state root, and that reached the final
\* check.
C26_Witness ==
    \E slot \in DoneTasks :
        LET log == tasks[slot].replay.log
        IN  /\ Len(log) >= 3
            /\ log[2].step = "implicit"
            /\ log[2].chunk_extra.state_root # log[1].chunk_extra.state_root
            /\ log[1].chunk_extra.gas_used > 0
            /\ tasks[slot].replay.outgoing_receipts # <<>>
            /\ log[Len(log)].step = "final"

\* C27 as stated: the working chunk extra takes its gas_limit from the
\* proposed chunk's header, witness.chunk_header, for every witness.
C27_GasLimitFromProposedHeader ==
    \A slot \in DoneTasks :
        LET task == tasks[slot]
        IN  task.replay.log # <<>> =>
                task.replay.log[1].chunk_extra.gas_limit
                    = task.state_witness.chunk_header.gas_limit

\* C27: gas_limit source. The working chunk extra takes its gas_limit from the
\* header of the last new chunk, the one the main transition replays
\* (main_transition.chunk_header), and keeps it through every step; a witness
\* whose proposed chunk declares another gas_limit is not endorsed, and when
\* its replay reaches the final check that check rejects it.
C27_GasLimitFromLastNewChunk ==
    \A slot \in DoneTasks :
        LET task == tasks[slot]
            w == task.state_witness
            log == task.replay.log
            last_new_chunk == LastNewChunkAt(w.chunk_header.prev_block_hash)
        IN  /\ \A j \in 1..Len(log) : log[j].chunk_extra.gas_limit = last_new_chunk.gas_limit
            /\ w.chunk_header.gas_limit # last_new_chunk.gas_limit =>
                   /\ task.replay.result # Ok
                   /\ \A i \in 1..Len(endorsements) : endorsements[i].slot # slot
                   /\ (log # <<>> /\ log[Len(log)].step = "final") =>
                          task.replay.result.kind = "InvalidChunkStateWitness"

\* A replay of a witness whose proposed chunk declares a gas_limit other than
\* that of the last new chunk, all of whose transitions replayed as declared.
C27_Witness ==
    \E slot \in DoneTasks :
        LET task == tasks[slot]
            log == task.replay.log
        IN  /\ log # <<>>
            /\ log[Len(log)].step = "final"
            /\ task.state_witness.chunk_header.gas_limit
                   # LastNewChunkAt(task.state_witness.chunk_header.prev_block_hash).gas_limit
            /\ task.replay.result = InvalidChunkStateWitness("gas limit", 0)

RECURSIVE RootsWithoutComparisons(_, _, _, _, _)
\* The state roots a replay computes when it makes no comparison: that of the
\* main transition, then that of every paired implicit transition from the
\* k-th on, with the error that stops it, if any.
RootsWithoutComparisons(state_witness, params, k, chunk_extra, roots) ==
    IF k > ZipLength(params, state_witness.implicit_transitions)
    THEN [result |-> Ok, roots |-> roots]
    ELSE LET applied == ApplyOldChunk([prev_chunk_extra |-> chunk_extra,
                                       block |-> params[k],
                                       storage |-> state_witness.implicit_transitions[k].base_state])
         IN  IF applied.result # Ok
             THEN [result |-> applied.result, roots |-> roots]
             ELSE RootsWithoutComparisons(state_witness, params, k + 1,
                      [chunk_extra EXCEPT !.state_root = applied.apply_result.new_root],
                      Append(roots, applied.apply_result.new_root))

\* The replay of a task with the intermediate comparisons left out: the
\* transitions, then the final check alone.
WithoutIntermediateChecks(task) ==
    LET w == task.state_witness
        pre == task.pre_validation_result
        main == ApplyNewChunk(pre.main_transition_params)
    IN  IF main.result # Ok THEN [result |-> main.result, roots |-> <<>>]
        ELSE LET chunk_extra == ApplyResultToChunkExtra(main.apply_result,
                                    pre.main_transition_params.chunk_header)
                 rest == RootsWithoutComparisons(w, pre.implicit_transition_params, 1,
                                                 chunk_extra, <<chunk_extra.state_root>>)
             IN  IF rest.result # Ok THEN rest
                 ELSE [result |-> ValidateChunkWithChunkExtraAndReceiptsRoot(
                                      [chunk_extra EXCEPT
                                          !.state_root = rest.roots[Len(rest.roots)]],
                                      w.chunk_header,
                                      Merklize(BuildReceiptsHashes(
                                          main.apply_result.outgoing_receipts))),
                       roots |-> rest.roots]

\* The task was rejected by an intermediate post-state-root comparison.
RejectedByIntermediateCheck(task) ==
    task.replay.result.reason \in {"main post state root", "implicit post state root"}

\* The witness declares, for every transition the replay computed, the post
\* state root the replay computed.
DeclaredAsComputed(task) ==
    LET w == task.state_witness
        roots == WithoutIntermediateChecks(task).roots
    IN  \A k \in 1..Len(roots) :
            roots[k] = IF k = 1 THEN w.main_state_transition.post_state_root
                       ELSE w.implicit_transitions[k - 1].post_state_root

C29_BuilderWindow ==
    \A w \in SentWitnesses :
        LET prev_block_hash == w.chunk_header.prev_block_hash
            prev_chunk_header == ChunkOf(GetBlock(prev_block_hash), ShardId)
            main_block == AncestorAtHeight(prev_block_hash, prev_chunk_header.height_included)
            later == AncestorsDownTo(prev_block_hash, main_block)
            stored(b) == [block_hash |-> b,
                          base_state |-> state_transition_data[b].base_state,
                          post_state_root |-> chunk_extras[b].state_root]
        IN  /\ prev_block_hash = last_send.prev_block_hash
            /\ main_block # DefaultHash
            /\ w.main_state_transition = stored(main_block)
            /\ Len(w.implicit_transitions) = Len(later)
            /\ \A i \in 1..Len(later) :
                   /\ w.implicit_transitions[i] = stored(later[i])
                   /\ GetBlock(later[i]).height > GetBlock(main_block).height
                   /\ i > 1 => GetBlock(later[i]).prev_hash = later[i - 1]
            /\ later # <<>> =>
                   /\ later[Len(later)] = prev_block_hash
                   /\ GetBlock(later[1]).prev_hash = main_block
            /\ later = <<>> => main_block = prev_block_hash
            /\ w.applied_receipts_hash = state_transition_data[main_block].receipts_hash

\* A sent witness with two implicit transitions, whose main block stores a
\* receipts hash other than those stored for the implicit blocks.
C29_Witness ==
    \E w \in SentWitnesses :
        /\ Len(w.implicit_transitions) = 2
        /\ \A i \in 1..2 :
               state_transition_data[w.implicit_transitions[i].block_hash].receipts_hash
                   # w.applied_receipts_hash
        /\ w.implicit_transitions[1].post_state_root # w.main_state_transition.post_state_root

RECURSIVE WalkReads(_, _, _)
\* The number of blocks the walk from `hash` asks the store for, `seen` new
\* chunks having been met before.
WalkReads(shard_id, hash, seen) ==
    IF ~BlockKnown(hash) THEN 1
    ELSE IF ~HasShard(GetBlock(hash), shard_id) THEN 1
    ELSE IF seen + (IF IsNewChunk(GetBlock(hash), shard_id) THEN 1 ELSE 0) = 2 THEN 1
    ELSE 1 + WalkReads(shard_id, GetBlock(hash).prev_hash,
                       seen + (IF IsNewChunk(GetBlock(hash), shard_id) THEN 1 ELSE 0))

\* The blocks with a new chunk of the shard among the blocks of `hashes`.
NewChunkBlocks(hashes) == {b \in hashes : IsNewChunk(GetBlock(b), ShardId)}

\* C30: walk termination. On every chain history, from every block hash, the
\* backward walk ends: every read goes to a strictly older block, so it reads
\* at most one block more than the history holds. It ends Ok exactly when the
\* second new chunk of the shard has been met, its two lists then holding two
\* new-chunk blocks, and otherwise with an error: the block lookup failure
\* when the history has fewer than two new chunks behind the start, or the
\* missing shard. The call returns the walk's error and spawns nothing.
C30_WalkTermination ==
    /\ \A b \in 1..Len(blocks) : GetBlock(b).prev_hash < b
    /\ \A start \in 0..(Len(blocks) + 1), shard_id \in {ShardId, ShardId + 1} :
           LET walk == WalkBack(shard_id, start, 0, <<>>, <<>>)
               behind == IF BlockKnown(start) THEN NewChunkBlocks(AncestorsOf(start)) ELSE {}
           IN  /\ WalkReads(shard_id, start, 0) <= Len(blocks) + 1
               /\ walk.result = Ok =>
                      /\ shard_id = ShardId
                      /\ Cardinality(behind) >= 2
                      /\ walk.blocks_after_last_chunk # <<>>
                      /\ walk.blocks_after_last_last_chunk # <<>>
                      /\ Cardinality(NewChunkBlocks(Range(walk.blocks_after_last_chunk))) = 1
                      /\ Cardinality(NewChunkBlocks(Range(walk.blocks_after_last_last_chunk))) = 1
                      /\ Range(walk.blocks_after_last_chunk)
                             \cap Range(walk.blocks_after_last_last_chunk) = {}
               /\ walk.result # Ok =>
                      \/ /\ walk.result = Err("DBNotFound", "block", walk.result.at)
                         /\ ~BlockKnown(walk.result.at)
                         /\ shard_id = ShardId => Cardinality(behind) < 2
                      \/ /\ walk.result.kind = "InvalidChunkStateWitness"
                         /\ walk.result.reason = "shard does not exist in block"
                         /\ shard_id # ShardId
    /\ (PreValidationRan /\ WalkOfLastCall.result # Ok) =>
           /\ last_call.result = WalkOfLastCall.result
           /\ ~last_call.spawned

\* A node was handed a witness whose parent has a single new chunk behind it:
\* the walk read known blocks, ran out of history and the call returned the
\* lookup failure.
C30_Witness ==
    /\ PreValidationRan
    /\ BlockKnown(last_call.state_witness.chunk_header.prev_block_hash)
    /\ WalkReads(last_call.state_witness.chunk_header.shard_id,
                 last_call.state_witness.chunk_header.prev_block_hash, 0) >= 2
    /\ last_call.result.kind = "DBNotFound"
    /\ ~last_call.spawned

\* C31: ignored witness fields. Two witnesses that differ only in
\* main_state_transition.block_hash, the block_hash of implicit transitions,
\* source_receipt_proofs, new_transactions or
\* new_transactions_validation_state get the same outcome: the call returns
\* the same result after the same steps, pre-validation gives the same output,
\* the replay applies the same blocks with the same result at every step, and
\* the endorsement sent, if any, is the same.
C31_IgnoredWitnessFields ==
    /\ last_call.called =>
           \A v \in RelabelledWitnesses(last_call.state_witness) :
               LET out == StartValidatingChunk(last_call.node, v)
               IN  /\ out.result = last_call.result
                   /\ out.trace = last_call.trace
                   /\ out.spawned = last_call.spawned
                   /\ PreValidateChunkStateWitness(v)
                          = PreValidateChunkStateWitness(last_call.state_witness)
    /\ \A slot \in DoneTasks :
           LET task == tasks[slot]
           IN  \A v \in RelabelledWitnesses(task.state_witness) :
                   LET out == StartValidatingChunk(task.node, v)
                       replay == ValidateChunkStateWitness(v, out.task.pre_validation_result)
                   IN  /\ out.spawned
                       /\ replay = task.replay
                       /\ SentAfterReplay(slot, out.task, replay)
                              = SentAfterReplay(slot, task, task.replay)
                       /\ \A i \in 1..Len(endorsements) :
                              endorsements[i].slot = slot =>
                                  <<endorsements[i]>> = SentAfterReplay(slot, out.task, replay)

\* An endorsement is in flight for a witness whose transitions name other
\* blocks than those replayed and whose unread fields were filled in.
C31_Witness ==
    \E i \in 1..Len(endorsements) :
        LET task == tasks[endorsements[i].slot]
            w == task.state_witness
            pre == task.pre_validation_result
        IN  /\ task.state = "done"
            /\ w.main_state_transition.block_hash # pre.main_transition_params.block.block_hash
            /\ Len(pre.implicit_transition_params) >= 1
            /\ Len(w.implicit_transitions) = Len(pre.implicit_transition_params)
            /\ w.implicit_transitions[1].block_hash
                   # pre.implicit_transition_params[1].block_hash
            /\ StateEvolvesAt(pre.implicit_transition_params[1].block_hash)
            /\ w.source_receipt_proofs # {}
            /\ w.new_transactions_validation_state # <<>>

\* The newest block at a height <= `height` among `hash` and its ancestors.
NewestAtOrBelow(hash, height) ==
    CHOOSE b \in AncestorsOf(hash) :
        /\ GetBlock(b).height <= height
        /\ \A a \in AncestorsOf(hash) : GetBlock(a).height <= height => a <= b

\* C32: the builder never panics on an empty window. For every previous chunk
\* header that passes the genesis check, whatever its height_included, the
\* block list get_blocks_until_height returns with the block at the height
\* included is non-empty, so split_first yields a main block, the newest
\* ancestor of the chunk's parent at or below height_included, and the builder
\* ends with a witness sent or with an error, never with a panic.
C32_BuilderNeverPanics ==
    /\ \A b \in 1..Len(blocks) : \A h \in 0..(GetBlock(b).height + 1) :
           LET got == GetBlocksUntilHeight(b, h, TRUE)
           IN  got.result = Ok =>
                   /\ got.hashes # <<>>
                   /\ got.hashes[1] = b
                   /\ got.hashes[Len(got.hashes)] = NewestAtOrBelow(b, h)
    /\ (/\ last_send.called
        /\ protocol_version >= ChunkValidationVersion
        /\ last_send.prev_chunk_header.prev_block_hash # DefaultHash) =>
           LET main_block == NewestAtOrBelow(last_send.prev_block_hash,
                                             last_send.prev_chunk_header.height_included)
           IN  /\ last_send.result.kind # "Panic"
               /\ \/ /\ last_send.result = Ok
                     /\ Len(last_send.sent) = 1
                     /\ last_send.sent[1].witness.main_state_transition.block_hash = main_block
                     /\ Len(last_send.sent[1].witness.implicit_transitions)
                            = Len(AncestorsDownTo(last_send.prev_block_hash, main_block))
                  \/ /\ last_send.result.kind = "Other"
                     /\ last_send.result.reason = "Missing state proof"
                     /\ last_send.sent = <<>>

\* The builder was called with a previous chunk header included at a height
\* above that of the chunk's parent block, and sent a witness whose main block
\* is the parent.
C32_Witness ==
    /\ last_send.called
    /\ last_send.prev_chunk_header.prev_block_hash # DefaultHash
    /\ last_send.prev_chunk_header.height_included
           > GetBlock(last_send.prev_block_hash).height
    /\ last_send.result = Ok
    /\ Len(last_send.sent) = 1
    /\ last_send.sent[1].witness.main_state_transition.block_hash = last_send.prev_block_hash
    /\ last_send.sent[1].witness.implicit_transitions = <<>>

====
